---- MODULE Spec2Model ----
(***************************************************************************)
(* A model of the arXiv MCP server: the search gateway (ArxivAPI), the     *)
(* Atom response parser, the capability operations of ArxivMCPServer and   *)
(* the exporters.                                                          *)
(*                                                                         *)
(* Text is a sequence of tokens.  Data that comes from the service (the    *)
(* text of XML elements, attribute values, ids) is a sequence of           *)
(* one-character strings.  Literals of the program that are only ever      *)
(* concatenated are written as longer tokens, with every character that    *)
(* some operation looks for ('{', '}', newline, '/', '.', quote, comma,    *)
(* space-sensitive separators) kept as a token of its own.                 *)
(*                                                                         *)
(* An optional value (Python's Optional[T]) is a sequence of length at     *)
(* most one: <<>> is None, <<v>> is the value v.                           *)
(*                                                                         *)
(* The outcome of evaluating code that may raise is a record               *)
(* [raised, msg, value]: Raise(m) is an exception whose str() is m, Ok(v)  *)
(* is the value v.                                                         *)
(***************************************************************************)
EXTENDS Integers, Sequences, FiniteSets, TLC

VARIABLES call, svc, reqs, result, http_client, chains

vars == <<call, svc, reqs, result, http_client, chains>>

----------------------------------------------------------------------------
(* Optional values and exceptions *)

None == <<>>

Some(v) == <<v>>

Ok(v) == [raised |-> FALSE, msg |-> <<>>, value |-> v]

Raise(m) == [raised |-> TRUE, msg |-> m, value |-> <<>>]

\* an exception raised by r passes through; otherwise F continues with the value
Then(r, F(_)) == IF r.raised THEN r ELSE F(r.value)

\* try: r  except Exception as e: return Handler(str(e))
Except(r, Handler(_)) == IF r.raised THEN Ok(Handler(r.msg)) ELSE r

----------------------------------------------------------------------------
(* str methods used by the program *)

Whitespace == {" ", "\n", "\t", "\r"}

RECURSIVE lstrip(_)
lstrip(s) ==
    IF s # <<>> /\ Head(s) \in Whitespace THEN lstrip(Tail(s)) ELSE s

RECURSIVE rstrip(_)
rstrip(s) ==
    IF s # <<>> /\ s[Len(s)] \in Whitespace
    THEN rstrip(SubSeq(s, 1, Len(s) - 1))
    ELSE s

\* str.strip()
strip(s) == rstrip(lstrip(s))

\* str.replace of one character c: the image of s[i] is new when s[i] = c and
\* s[i] otherwise, and starts in the output at start(i)
ReplaceChar(s, c, new) ==
    LET start(i) == i + (Len(new) - 1) * Cardinality({k \in 1..(i - 1) : s[k] = c})
    IN  [j \in 1..(start(Len(s) + 1) - 1) |->
            LET i == CHOOSE i \in 1..Len(s) : start(i) <= j /\ j < start(i + 1)
            IN  IF s[i] = c THEN new[j - start(i) + 1] ELSE s[i]]

\* str.replace of a longer text: the leftmost non-overlapping occurrences
RECURSIVE ReplaceText(_, _, _)
ReplaceText(s, old, new) ==
    IF Len(s) < Len(old) THEN s
    ELSE IF SubSeq(s, 1, Len(old)) = old
         THEN new \o ReplaceText(SubSeq(s, Len(old) + 1, Len(s)), old, new)
         ELSE <<Head(s)>> \o ReplaceText(Tail(s), old, new)

\* str.replace(old, new), old non-empty
replace(s, old, new) ==
    IF Len(old) = 1 THEN ReplaceChar(s, old[1], new) ELSE ReplaceText(s, old, new)

\* s[:n]
Prefix(s, n) == SubSeq(s, 1, IF Len(s) < n THEN Len(s) ELSE n)

\* s.split(sep)[-1] for a one-character separator
RECURSIVE LastSplit(_, _)
LastSplit(s, sep) ==
    IF \E i \in 1..Len(s) : s[i] = sep
    THEN LastSplit(Tail(s), sep)
    ELSE s

\* sep.join(parts)
RECURSIVE join(_, _)
join(sep, parts) ==
    IF parts = <<>> THEN <<>>
    ELSE IF Len(parts) = 1 THEN parts[1]
    ELSE parts[1] \o sep \o join(sep, Tail(parts))

\* the number of tokens of s equal to c
count(s, c) == Cardinality({i \in 1..Len(s) : s[i] = c})

----------------------------------------------------------------------------
(* The Atom feed as ElementTree presents it.                               *)
(* An element is [present, text]: present is whether find() returns an     *)
(* element, text = <<>> is an element whose .text is None (<title/>).      *)
(* An entry is [title, authors, summary, id, published, categories,        *)
(* links]: authors is the sequence of the atom:name elements of its        *)
(* atom:author elements, categories the sequence of term attributes        *)
(* (optional), links the sequence of [type, href] attributes (optional).  *)

Absent == [present |-> FALSE, text |-> <<>>]

Elem(t) == [present |-> TRUE, text |-> t]

AttributeErrorStrip == <<"'NoneType' object has no attribute 'strip'">>

TypeErrorSubscript == <<"'NoneType' object is not subscriptable">>

UnknownTitle == <<"U","n","k","n","o","w","n"," ","T","i","t","l","e">>

\* api.py:92-93
ParseTitle(entry) ==
    IF entry.title.present
    THEN IF entry.title.text = <<>>
         THEN Raise(AttributeErrorStrip)
         ELSE Ok(replace(strip(entry.title.text), <<"\n">>, <<" ">>))
    ELSE Ok(UnknownTitle)

\* api.py:96-100
RECURSIVE ParseAuthors(_)
ParseAuthors(names) ==
    IF names = <<>> THEN Ok(<<>>)
    ELSE IF ~Head(names).present THEN ParseAuthors(Tail(names))
    ELSE IF Head(names).text = <<>> THEN Raise(AttributeErrorStrip)
    ELSE LET rest == ParseAuthors(Tail(names))
         IN  IF rest.raised THEN rest
             ELSE Ok(<<strip(Head(names).text)>> \o rest.value)

\* api.py:103-104
ParseAbstract(entry) ==
    IF entry.summary.present
    THEN IF entry.summary.text = <<>>
         THEN Raise(AttributeErrorStrip)
         ELSE Ok(replace(strip(entry.summary.text), <<"\n">>, <<" ">>))
    ELSE Ok(<<>>)

\* api.py:107-108: the id element's text, None when the element has no text
ParseArxivUrl(entry) ==
    IF entry.id.present
    THEN IF entry.id.text = <<>> THEN None ELSE Some(entry.id.text)
    ELSE Some(<<>>)

\* api.py:109
ParseArxivId(arxiv_url) ==
    IF arxiv_url # None /\ arxiv_url[1] # <<>>
    THEN LastSplit(arxiv_url[1], "/")
    ELSE <<>>

\* api.py:112-113
ParsePublished(entry) ==
    IF entry.published.present
    THEN IF entry.published.text = <<>>
         THEN Raise(TypeErrorSubscript)
         ELSE Ok(Prefix(entry.published.text, 10))
    ELSE Ok(<<>>)

\* api.py:116-120
RECURSIVE ParseCategories(_)
ParseCategories(terms) ==
    IF terms = <<>> THEN <<>>
    ELSE IF Head(terms) # None /\ Head(terms)[1] # <<>>
         THEN <<Head(terms)[1]>> \o ParseCategories(Tail(terms))
         ELSE ParseCategories(Tail(terms))

PdfType == <<"application/pdf">>

\* api.py:123-127
RECURSIVE ParsePdfUrl(_)
ParsePdfUrl(links) ==
    IF links = <<>> THEN <<>>
    ELSE IF Head(links).type = Some(PdfType)
         THEN IF Head(links).href = None THEN <<>> ELSE Head(links).href[1]
         ELSE ParsePdfUrl(Tail(links))

\* api.py:86-142: Some(dict), or None when the extraction raised
parse_paper_entry(entry) ==
    LET title     == ParseTitle(entry)
        authors   == ParseAuthors(entry.authors)
        abstract  == ParseAbstract(entry)
        arxiv_url == ParseArxivUrl(entry)
        published == ParsePublished(entry)
    IN  IF title.raised \/ authors.raised \/ abstract.raised \/ published.raised
        THEN None
        ELSE Some([id         |-> ParseArxivId(arxiv_url),
                   title      |-> title.value,
                   authors    |-> authors.value,
                   abstract   |-> abstract.value,
                   published  |-> published.value,
                   categories |-> ParseCategories(entry.categories),
                   arxiv_url  |-> arxiv_url,
                   pdf_url    |-> ParsePdfUrl(entry.links)])

\* models.py:17-29
Paper_from_dict(data) ==
    [id         |-> data.id,
     title      |-> data.title,
     authors    |-> data.authors,
     abstract   |-> data.abstract,
     published  |-> data.published,
     categories |-> data.categories,
     arxiv_url  |-> data.arxiv_url,
     pdf_url    |-> data.pdf_url]

\* a loop that an entry's failure ends
RECURSIVE ParseEntries_AbortOnFailure(_)
ParseEntries_AbortOnFailure(entries) ==
    IF entries = <<>> THEN <<>>
    ELSE LET paper_data == parse_paper_entry(Head(entries))
         IN  IF paper_data # None
             THEN <<Paper_from_dict(paper_data[1])>>
                  \o ParseEntries_AbortOnFailure(Tail(entries))
             ELSE <<>>

\* api.py:75-78: the loop over the entries
RECURSIVE ParseEntries(_)
ParseEntries(entries) ==
    IF entries = <<>> THEN <<>>
    ELSE LET paper_data == parse_paper_entry(Head(entries))
         IN  (IF paper_data # None
              THEN <<Paper_from_dict(paper_data[1])>>
              ELSE <<>>) \o ParseEntries(Tail(entries))

\* api.py:69-84: content is [wellFormed, entries]
parse_response(content) ==
    IF content.wellFormed THEN ParseEntries(content.entries) ELSE <<>>

----------------------------------------------------------------------------
(* The search gateway, ArxivAPI.                                           *)
(* What the service does on one request is an outcome                      *)
(* [kind, msg, status, wellFormed, entries]: kind "timeout" and "connect"  *)
(* are transport failures, which http_client.get raises with str() = msg   *)
(* (httpx's timeout exceptions carry an empty message); kind "response"    *)
(* is an HTTP response with a status and a body.                           *)

\* urllib.parse.quote_plus on one token: letters, digits and _.-~ are kept
QuoteToken(c) ==
    CASE c = " "  -> "+"
      [] c = ":"  -> "%3A"
      [] c = "\"" -> "%22"
      [] c = "/"  -> "%2F"
      [] c = "["  -> "%5B"
      [] c = "]"  -> "%5D"
      [] c = "("  -> "%28"
      [] c = ")"  -> "%29"
      [] c = "{"  -> "%7B"
      [] c = "}"  -> "%7D"
      [] c = ","  -> "%2C"
      [] c = "\n" -> "%0A"
      [] c = "\\" -> "%5C"
      [] OTHER    -> c

\* api.py:28
quote_plus(s) == [i \in 1..Len(s) |-> QuoteToken(s[i])]

\* api.py:29
SortOrder(sort_by) == IF sort_by # "relevance" THEN "descending" ELSE "ascending"

\* api.py:31: the query parameters of the search URL
SearchRequest(query, max_results, sort_by) ==
    [kind         |-> "search",
     search_query |-> quote_plus(query),
     start        |-> 0,
     max_results  |-> max_results,
     sortBy       |-> sort_by,
     sortOrder    |-> SortOrder(sort_by)]

\* api.py:58
IdListRequest(clean_id) == [kind |-> "id_list", id_list |-> clean_id]

\* api.py:33, 59: await self.http_client.get(url)
http_get(outcome) ==
    IF outcome.kind = "response" THEN Ok(outcome) ELSE Raise(outcome.msg)

\* httpx.Response.raise_for_status (api.py:34, 60)
raise_for_status(response) ==
    IF response.status \in 200..299
    THEN Ok(response)
    ELSE Raise(IF response.status \in 400..499
               THEN <<"Client error", " ", "for url">>
               ELSE <<"Server error", " ", "for url">>)

\* models.py:45-51
SearchResult(query, total_results, papers, error) ==
    [query |-> query, total_results |-> total_results,
     papers |-> papers, error |-> error]

\* api.py:28-42: the body of the try block
SearchTry(query, max_results, sort_by, outcome) ==
    LET response == http_get(outcome)
    IN  IF response.raised THEN response
        ELSE LET checked == raise_for_status(response.value)
             IN  IF checked.raised THEN checked
                 ELSE LET papers == parse_response(checked.value)
                      IN  Ok(SearchResult(query, Len(papers), papers, None))

\* a search that reports skipped entries as an error next to the papers
ArxivAPI_search_ErrorWithPapers(query, max_results, sort_by, outcome) ==
    LET r == SearchTry(query, max_results, sort_by, outcome)
    IN  IF r.raised
        THEN Ok(SearchResult(query, 0, <<>>, Some(r.msg)))
        ELSE IF Len(r.value.papers) < Len(outcome.entries)
             THEN Ok([r.value EXCEPT !.error = Some(<<"entries skipped">>)])
             ELSE r

\* a search that reports the number of entries of the feed as the total
ArxivAPI_search_FeedTotal(query, max_results, sort_by, outcome) ==
    LET r == SearchTry(query, max_results, sort_by, outcome)
    IN  IF r.raised
        THEN Ok(SearchResult(query, 0, <<>>, Some(r.msg)))
        ELSE Ok([r.value EXCEPT !.total_results = Len(outcome.entries)])

\* api.py:20-51
ArxivAPI_search(query, max_results, sort_by, outcome) ==
    LET r == SearchTry(query, max_results, sort_by, outcome)
    IN  IF r.raised
        THEN Ok(SearchResult(query, 0, <<>>, Some(r.msg)))
        ELSE r

\* a normalisation that keeps the 'arXiv:' prefix
CleanId_KeepPrefix(arxiv_id) ==
    replace(replace(replace(arxiv_id,
        <<"v","1">>, <<>>), <<"v","2">>, <<>>), <<"v","3">>, <<>>)

\* api.py:56
CleanId(arxiv_id) ==
    replace(replace(replace(replace(arxiv_id,
        <<"a","r","X","i","v",":">>, <<>>),
        <<"v","1">>, <<>>), <<"v","2">>, <<>>), <<"v","3">>, <<>>)

\* api.py:56-63: the body of the try block
GetPaperTry(arxiv_id, outcome) ==
    LET response == http_get(outcome)
    IN  IF response.raised THEN response
        ELSE LET checked == raise_for_status(response.value)
             IN  IF checked.raised THEN checked
                 ELSE LET papers == parse_response(checked.value)
                      IN  Ok(IF papers # <<>> THEN Some(papers[1]) ELSE None)

\* api.py:53-67
ArxivAPI_get_paper(arxiv_id, outcome) ==
    LET r == GetPaperTry(arxiv_id, outcome)
    IN  IF r.raised THEN Ok(None) ELSE r

----------------------------------------------------------------------------
(* utils.py: the query builder, the comparator and the formatter *)

\* models.py:31-42
to_dict(paper) ==
    [id         |-> paper.id,
     title      |-> paper.title,
     authors    |-> paper.authors,
     abstract   |-> paper.abstract,
     published  |-> paper.published,
     categories |-> paper.categories,
     arxiv_url  |-> paper.arxiv_url,
     pdf_url    |-> paper.pdf_url]

\* str() of an optional string inside an f-string
Str(opt) == IF opt = None THEN <<"None">> ELSE opt[1]

\* utils.py:14-16
build_author_query(author_name) == <<"au", ":", "\"">> \o author_name \o <<"\"">>

\* utils.py:19-21
build_category_query(category) == <<"cat", ":">> \o category

DigitChar(n) ==
    CASE n = 0 -> "0" [] n = 1 -> "1" [] n = 2 -> "2" [] n = 3 -> "3"
      [] n = 4 -> "4" [] n = 5 -> "5" [] n = 6 -> "6" [] n = 7 -> "7"
      [] n = 8 -> "8" [] n = 9 -> "9"

\* the decimal digits of n >= 0, at least `width` of them
RECURSIVE Digits(_, _)
Digits(n, width) ==
    IF n < 10 /\ width <= 1 THEN <<DigitChar(n)>>
    ELSE Digits(n \div 10, width - 1) \o <<DigitChar(n % 10)>>

\* datetime.strftime("%Y%m%d") of a date [y, m, d]
strftime(date) == Digits(date.y, 4) \o Digits(date.m, 2) \o Digits(date.d, 2)

DaysInMonth(y, m) ==
    IF m = 2
    THEN (IF (y % 4 = 0 /\ y % 100 # 0) \/ y % 400 = 0 THEN 29 ELSE 28)
    ELSE IF m \in {4, 6, 9, 11} THEN 30 ELSE 31

\* date - timedelta(days=n), n >= 0: back within the month, or over the first
\* of the month to the last day of the month before
RECURSIVE MinusDays(_, _)
MinusDays(date, n) ==
    IF n < date.d THEN [date EXCEPT !.d = @ - n]
    ELSE IF date.m > 1
         THEN MinusDays([y |-> date.y, m |-> date.m - 1,
                         d |-> DaysInMonth(date.y, date.m - 1)], n - date.d)
         ELSE MinusDays([y |-> date.y - 1, m |-> 12, d |-> 31], n - date.d)

\* utils.py:24-32
build_date_range_query(start_date, end_date) ==
    <<"submittedDate", ":", "[">> \o strftime(start_date)
        \o <<" ", "TO", " ">> \o strftime(end_date) \o <<"]">>

\* utils.py:35-37, operator = "AND"
combine_queries(queries) ==
    join(<<" ", "AND", " ">>,
         [i \in 1..Len(queries) |-> <<"(">> \o queries[i] \o <<")">>])

\* str.title() of a comparison field
FieldTitle(field) ==
    CASE field = "authors"    -> "Authors"
      [] field = "categories" -> "Categories"
      [] field = "abstract"   -> "Abstract"
      [] field = "published"  -> "Published"
      [] field = "citations"  -> "Citations"

\* s[:n] + "..." if len(s) > n else s
Preview(s, n) == IF Len(s) > n THEN Prefix(s, n) \o <<".", ".", ".">> ELSE s

\* utils.py:57-76: one paper under one field
ComparePaper(i, paper, field) ==
    <<"*", "*", "Paper", " ">> \o Digits(i, 1) \o <<"*", "*", " ", "(">>
        \o paper.id \o <<")", ":", " ">> \o Preview(paper.title, 60) \o <<"\n">>
    \o (CASE field = "authors" ->
               <<"-", " ", "Authors", ":", " ">>
                   \o join(<<",", " ">>, Prefix(paper.authors, 3))
                   \o (IF Len(paper.authors) > 3 THEN <<".", ".", ".">> ELSE <<>>)
                   \o <<"\n", "\n">>
          [] field = "categories" ->
               <<"-", " ", "Categories", ":", " ">>
                   \o join(<<",", " ">>, paper.categories) \o <<"\n", "\n">>
          [] field = "abstract" ->
               <<"-", " ", "Abstract", ":", " ">>
                   \o Preview(paper.abstract, 200) \o <<"\n", "\n">>
          [] field = "published" ->
               <<"-", " ", "Published", ":", " ">> \o paper.published \o <<"\n", "\n">>
          [] OTHER -> <<>>)

\* the concatenation of a sequence of texts
RECURSIVE Concat(_)
Concat(texts) == IF texts = <<>> THEN <<>> ELSE Head(texts) \o Concat(Tail(texts))

\* utils.py:43-80
PaperComparator_compare_papers(papers, comparison_fields) ==
    IF papers = <<>> THEN <<"No papers to compare">>
    ELSE <<"#", " ", "Paper Comparison", "\n", "\n">>
         \o Concat([f \in 1..Len(comparison_fields) |->
                <<"#", "#", " ", FieldTitle(comparison_fields[f]), "\n", "\n">>
                \o Concat([i \in 1..Len(papers) |->
                       ComparePaper(i, papers[i], comparison_fields[f])])
                \o <<"\n", "-", "-", "-", "\n", "\n">>])

\* utils.py:86-97
format_paper_summary(paper) ==
    <<"#", " ">> \o paper.title \o <<"\n", "\n">>
    \o <<"*", "*", "Authors", ":", "*", "*", " ">>
        \o join(<<",", " ">>, paper.authors) \o <<"\n">>
    \o <<"*", "*", "Published", ":", "*", "*", " ">> \o paper.published \o <<"\n">>
    \o <<"*", "*", "arXiv ID", ":", "*", "*", " ">> \o paper.id \o <<"\n">>
    \o <<"*", "*", "Categories", ":", "*", "*", " ">>
        \o join(<<",", " ">>, paper.categories) \o <<"\n", "\n">>
    \o <<"#", "#", " ", "Abstract", "\n">> \o paper.abstract \o <<"\n", "\n">>
    \o <<"*", "*", "PDF", ":", "*", "*", " ">> \o paper.pdf_url \o <<"\n">>
    \o <<"*", "*", "arXiv Page", ":", "*", "*", " ">> \o Str(paper.arxiv_url) \o <<"\n">>

----------------------------------------------------------------------------
(* exporters.py.  A config is [format, include_abstract,                   *)
(* include_categories, include_urls] (models.py:76-82).                    *)

\* models.py:76-82
ExportConfig(format, include_abstract, include_categories, include_urls) ==
    [format |-> format, include_abstract |-> include_abstract,
     include_categories |-> include_categories, include_urls |-> include_urls]

\* exporters.py:36, 50
EscapeBraces(s) ==
    replace(replace(s, <<"{">>, <<"\\", "{">>), <<"}">>, <<"\\", "}">>)

\* exporters.py:35-58: the entry of one paper
BibtexEntry(paper, config) ==
    LET arxiv_id == replace(replace(paper.id, <<".">>, <<"_">>), <<"/">>, <<"_">>)
        title    == EscapeBraces(paper.title)
        authors  == join(<<" ", "and", " ">>, paper.authors)
        year     == IF paper.published # <<>> THEN Prefix(paper.published, 4) ELSE <<>>
    IN  <<"@article", "{">> \o arxiv_id \o <<",", "\n">>
        \o <<"  title=", "{">> \o title \o <<"}", ",", "\n">>
        \o <<"  author=", "{">> \o authors \o <<"}", ",", "\n">>
        \o <<"  journal=", "{", "arXiv preprint arXiv", ":">> \o paper.id
            \o <<"}", ",", "\n">>
        \o <<"  year=", "{">> \o year \o <<"}">>
        \o (IF config.include_urls
            THEN <<",", "\n", "  url=", "{", "https", ":", "/", "/", "export",
                   ".", "arxiv", ".", "org", "/", "abs", "/">> \o paper.id \o <<"}">>
            ELSE <<>>)
        \o (IF config.include_abstract
            THEN <<",", "\n", "  abstract=", "{">>
                     \o EscapeBraces(paper.abstract) \o <<"}">>
            ELSE <<>>)
        \o (IF config.include_categories /\ paper.categories # <<>>
            THEN <<",", "\n", "  note=", "{", "Categories", ":", " ">>
                     \o join(<<",", " ">>, paper.categories) \o <<"}">>
            ELSE <<>>)
        \o <<"\n", "}">>

\* exporters.py:29-60
export_bibtex(papers, config) ==
    join(<<"\n", "\n">>, [i \in 1..Len(papers) |-> BibtexEntry(papers[i], config)])

\* a writer that puts the characters between quotes as they are
JsonString_Unescaped(s) == <<"\"">> \o s \o <<"\"">>

\* json.dumps of a str
JsonString(s) ==
    <<"\"">>
    \o replace(replace(replace(replace(replace(s,
           <<"\\">>, <<"\\", "\\">>),
           <<"\"">>, <<"\\", "\"">>),
           <<"\n">>, <<"\\", "n">>),
           <<"\r">>, <<"\\", "r">>),
           <<"\t">>, <<"\\", "t">>)
    \o <<"\"">>

\* json.dumps of a list of str, at the indentation of a paper's fields
JsonList(items) ==
    IF items = <<>> THEN <<"[", "]">>
    ELSE <<"[", "\n">>
         \o join(<<",", "\n">>,
                 [i \in 1..Len(items) |-> <<"      ">> \o JsonString(items[i])])
         \o <<"\n", "    ", "]">>

\* exporters.py:67-75: the keys left of a paper's dict, in order, each with
\* its value as json.dumps writes it
JsonFields(paper, config) ==
    LET d == to_dict(paper)
    IN  << <<"id", JsonString(d.id)>>, <<"title", JsonString(d.title)>>,
           <<"authors", JsonList(d.authors)>> >>
        \o (IF config.include_abstract
            THEN << <<"abstract", JsonString(d.abstract)>> >> ELSE <<>>)
        \o << <<"published", JsonString(d.published)>> >>
        \o (IF config.include_categories
            THEN << <<"categories", JsonList(d.categories)>> >> ELSE <<>>)
        \o (IF config.include_urls
            THEN << <<"arxiv_url", IF d.arxiv_url = None THEN <<"null">>
                                   ELSE JsonString(d.arxiv_url[1])>>,
                    <<"pdf_url", JsonString(d.pdf_url)>> >>
            ELSE <<>>)

\* exporters.py:62-79: json.dumps(paper_dicts, indent=2)
export_json(papers, config) ==
    IF papers = <<>> THEN <<"[", "]">>
    ELSE <<"[", "\n">>
         \o join(<<",", "\n">>,
               [i \in 1..Len(papers) |->
                   LET fields == JsonFields(papers[i], config)
                   IN  <<"  ", "{", "\n">>
                       \o join(<<",", "\n">>,
                             [k \in 1..Len(fields) |->
                                 <<"    ", "\"", fields[k][1], "\"", ":", " ">>
                                 \o fields[k][2]])
                       \o <<"\n", "  ", "}">>])
         \o <<"\n", "]">>

\* models.py:17-29, the objects behind papers: the heap is the sequence of
\* the objects and an address is a place in it; paper i is at address i and
\* holds its authors and categories lists, objects of their own, by address
PaperObjects(papers) ==
    LET n == Len(papers)
    IN  [a \in 1..(3 * n) |->
            IF a <= n
            THEN [papers[a] EXCEPT !.authors = n + 2 * a - 1,
                                   !.categories = n + 2 * a]
            ELSE IF (a - n) % 2 = 1 THEN papers[(a - n + 1) \div 2].authors
            ELSE papers[(a - n) \div 2].categories]

\* a to_dict that hands out the paper's own attribute dict
to_dict_object_Alias(heap, self) == [heap |-> heap, ref |-> self]

\* models.py:31-42 on objects: a new dict object that holds the values of the
\* paper's fields (for the two lists, the paper's own list objects)
to_dict_object(heap, self) ==
    [heap |-> Append(heap,
                     [k \in {"id", "title", "authors", "abstract", "published",
                             "categories", "arxiv_url", "pdf_url"} |->
                         heap[self][k]]),
     ref  |-> Len(heap) + 1]

\* exporters.py:62-77 on objects, the heap when the dicts are built: pop
\* removes a key of the object paper_dict refers to
export_json_objects(papers, config) ==
    LET pop(h, d, key) ==
            [h EXCEPT ![d] = [k \in (DOMAIN h[d]) \ {key} |-> h[d][k]]]
        one(h, paper) ==
            LET made == to_dict_object(h, paper)
                paper_dict == made.ref
                h1 == IF ~config.include_abstract
                      THEN pop(made.heap, paper_dict, "abstract") ELSE made.heap
                h2 == IF ~config.include_categories
                      THEN pop(h1, paper_dict, "categories") ELSE h1
            IN  IF ~config.include_urls
                THEN pop(pop(h2, paper_dict, "arxiv_url"), paper_dict, "pdf_url")
                ELSE h2
        after[i \in 0..Len(papers)] ==
            IF i = 0 THEN PaperObjects(papers) ELSE one(after[i - 1], i)
    IN  after[Len(papers)]

\* a writer that never quotes
CsvField_Unquoted(s) == s

\* csv.writer, excel dialect: one field, quoted when it holds a delimiter,
\* a quote or a line break
CsvField(s) ==
    IF \E i \in 1..Len(s) : s[i] \in {",", "\"", "\n", "\r"}
    THEN <<"\"">> \o replace(s, <<"\"">>, <<"\"", "\"">>) \o <<"\"">>
    ELSE s

\* csv.writer.writerow
CsvRow(fields) ==
    join(<<",">>, [i \in 1..Len(fields) |-> CsvField(fields[i])]) \o <<"\r", "\n">>

\* exporters.py:81-115
export_csv(papers, config) ==
    LET fieldnames ==
            << <<"id">>, <<"title">>, <<"authors">>, <<"published">> >>
            \o (IF config.include_categories THEN << <<"categories">> >> ELSE <<>>)
            \o (IF config.include_urls
                THEN << <<"arxiv_url">>, <<"pdf_url">> >> ELSE <<>>)
            \o (IF config.include_abstract THEN << <<"abstract">> >> ELSE <<>>)
        row(paper) ==
            << paper.id, paper.title, join(<<";", " ">>, paper.authors),
               paper.published >>
            \o (IF config.include_categories
                THEN << join(<<";", " ">>, paper.categories) >> ELSE <<>>)
            \o (IF config.include_urls
                THEN << (IF paper.arxiv_url = None THEN <<>> ELSE paper.arxiv_url[1]),
                        paper.pdf_url >>
                ELSE <<>>)
            \o (IF config.include_abstract THEN << paper.abstract >> ELSE <<>>)
    IN  CsvRow(fieldnames)
        \o Concat([i \in 1..Len(papers) |-> CsvRow(row(papers[i]))])

\* exporters.py:123-139: the section of one paper
MarkdownSection(i, paper, config) ==
    <<"#", "#", " ">> \o Digits(i, 1) \o <<".", " ">> \o paper.title \o <<"\n", "\n">>
    \o <<"*", "*", "Authors", ":", "*", "*", " ">>
        \o join(<<",", " ">>, paper.authors) \o <<" ", " ", "\n">>
    \o <<"*", "*", "arXiv ID", ":", "*", "*", " ", "[">> \o paper.id
        \o <<"]", "(", "https", ":", "/", "/", "exportarxiv", ".", "org", "/",
             "abs", "/">> \o paper.id \o <<")", " ", " ", "\n">>
    \o <<"*", "*", "Published", ":", "*", "*", " ">> \o paper.published
        \o <<" ", " ", "\n">>
    \o (IF config.include_categories /\ paper.categories # <<>>
        THEN <<"*", "*", "Categories", ":", "*", "*", " ">>
                 \o join(<<",", " ">>, paper.categories) \o <<" ", " ", "\n">>
        ELSE <<>>)
    \o (IF config.include_urls
        THEN <<"*", "*", "PDF", ":", "*", "*", " ", "[", "Download", "]", "(",
               "https", ":", "/", "/", "export", ".", "arxiv", ".", "org", "/",
               "pdf", "/">> \o paper.id \o <<".", "pdf", ")", " ", " ", "\n">>
        ELSE <<>>)
    \o <<"\n">>
    \o (IF config.include_abstract
        THEN <<"*", "*", "A", "b", "s", "t", "r", "a", "c", "t", ":", "*", "*",
               " ", " ", "\n">> \o paper.abstract \o <<"\n", "\n">>
        ELSE <<>>)
    \o <<"-", "-", "-", "\n", "\n">>

\* exporters.py:117-141
export_markdown(papers, config) ==
    <<"#", " ", "arXiv Papers Export", "\n", "\n">>
    \o Concat([i \in 1..Len(papers) |-> MarkdownSection(i, papers[i], config)])

\* a dispatch that has lost its last branch
PaperExporter_export_papers_NoMarkdown(papers, config) ==
    IF config.format = "bibtex" THEN Ok(export_bibtex(papers, config))
    ELSE IF config.format = "json" THEN Ok(export_json(papers, config))
    ELSE IF config.format = "csv" THEN Ok(export_csv(papers, config))
    ELSE Raise(<<"Unsupported format", ":", " ", config.format>>)

\* exporters.py:12-27
PaperExporter_export_papers(papers, config) ==
    IF config.format = "bibtex" THEN Ok(export_bibtex(papers, config))
    ELSE IF config.format = "json" THEN Ok(export_json(papers, config))
    ELSE IF config.format = "csv" THEN Ok(export_csv(papers, config))
    ELSE IF config.format = "markdown" THEN Ok(export_markdown(papers, config))
    ELSE Raise(<<"Unsupported format", ":", " ", config.format>>)

----------------------------------------------------------------------------
(* analyzers.py *)

\* the characters of the model in code point order (str comparison)
Ascii ==
    <<"\t", "\n", "\r", " ", "!", "\"", "#", "$", "%", "&", "'", "(", ")", "*", "+",
      ",", "-", ".", "/", "0", "1", "2", "3", "4", "5", "6", "7", "8", "9", ":",
      ";", "<", "=", ">", "?", "@", "A", "B", "C", "D", "E", "F", "G", "H", "I",
      "J", "K", "L", "M", "N", "O", "P", "Q", "R", "S", "T", "U", "V", "W", "X",
      "Y", "Z", "[", "\\", "]", "^", "_", "a", "b", "c", "d", "e", "f", "g",
      "h", "i", "j", "k", "l", "m", "n", "o", "p", "q", "r", "s", "t", "u", "v",
      "w", "x", "y", "z", "{", "|", "}", "~">>

\* the place of each character in Ascii
CodePoint ==
    [c \in {Ascii[i] : i \in 1..Len(Ascii)} |->
        CHOOSE i \in 1..Len(Ascii) : Ascii[i] = c]

\* ord(c), up to a shift
Ord(c) == CodePoint[c]

IsDigit(c) == Ord(c) \in Ord("0")..Ord("9")

IsLetter(c) ==
    Ord(c) \in (Ord("A")..Ord("Z")) \cup (Ord("a")..Ord("z"))

\* str.lower()
lower(s) ==
    [i \in 1..Len(s) |->
        IF Ord(s[i]) \in Ord("A")..Ord("Z")
        THEN Ascii[Ord(s[i]) + (Ord("a") - Ord("A"))]
        ELSE s[i]]

\* a < b for str
RECURSIVE StrLess(_, _)
StrLess(a, b) ==
    IF b = <<>> THEN FALSE
    ELSE IF a = <<>> THEN TRUE
    ELSE IF Head(a) = Head(b) THEN StrLess(Tail(a), Tail(b))
    ELSE Ord(Head(a)) < Ord(Head(b))

\* counts[key] = counts.get(key, 0) + 1 over keys: the items of the dict, in
\* insertion order
RECURSIVE Tally(_, _)
Tally(keys, counts) ==
    IF keys = <<>> THEN counts
    ELSE IF \E i \in 1..Len(counts) : counts[i][1] = Head(keys)
         THEN LET i == CHOOSE i \in 1..Len(counts) : counts[i][1] = Head(keys)
              IN  Tally(Tail(keys), [counts EXCEPT ![i] = <<@[1], @[2] + 1>>])
         ELSE Tally(Tail(keys), Append(counts, <<Head(keys), 1>>))

\* sorted(items, key=count, reverse=True): stable
RECURSIVE SortByCountDesc(_)
SortByCountDesc(items) ==
    IF items = <<>> THEN <<>>
    ELSE LET rest == SortByCountDesc(SubSeq(items, 1, Len(items) - 1))
             x    == items[Len(items)]
             n    == Cardinality({i \in 1..Len(rest) : rest[i][2] >= x[2]})
         IN  SubSeq(rest, 1, n) \o <<x>> \o SubSeq(rest, n + 1, Len(rest))

\* sorted(items) of a dict's items: by key
RECURSIVE SortByKey(_)
SortByKey(items) ==
    IF items = <<>> THEN <<>>
    ELSE LET rest == SortByKey(SubSeq(items, 1, Len(items) - 1))
             x    == items[Len(items)]
             n    == Cardinality({i \in 1..Len(rest) : StrLess(rest[i][1], x[1])})
         IN  SubSeq(rest, 1, n) \o <<x>> \o SubSeq(rest, n + 1, Len(rest))

\* the months in the order the papers brought them
analyze_publication_count_Unsorted(papers) ==
    LET dated == SelectSeq(papers, LAMBDA paper : paper.published # <<>>)
        keys  == [i \in 1..Len(dated) |-> Prefix(dated[i].published, 7)]
    IN  << <<"monthly_counts", Tally(keys, <<>>)>> >>

\* analyzers.py:87-95
analyze_publication_count(papers) ==
    LET dated == SelectSeq(papers, LAMBDA paper : paper.published # <<>>)
        keys  == [i \in 1..Len(dated) |-> Prefix(dated[i].published, 7)]
    IN  << <<"monthly_counts", SortByKey(Tally(keys, <<>>))>> >>

\* the first ten authors encountered
analyze_top_authors_Unsorted(papers) ==
    LET authors == Concat([i \in 1..Len(papers) |-> papers[i].authors])
        top_authors == Prefix(Tally(authors, <<>>), 10)
    IN  << <<"top_authors",
             [i \in 1..Len(top_authors) |->
                 [author |-> top_authors[i][1],
                  paper_count |-> top_authors[i][2]]]>> >>

\* analyzers.py:97-110
analyze_top_authors(papers) ==
    LET authors == Concat([i \in 1..Len(papers) |-> papers[i].authors])
        top_authors == Prefix(SortByCountDesc(Tally(authors, <<>>)), 10)
    IN  << <<"top_authors",
             [i \in 1..Len(top_authors) |->
                 [author |-> top_authors[i][1],
                  paper_count |-> top_authors[i][2]]]>> >>

StopWords ==
    { <<"t","h","e">>, <<"a">>, <<"a","n">>, <<"a","n","d">>, <<"o","r">>,
      <<"b","u","t">>, <<"i","n">>, <<"o","n">>, <<"a","t">>, <<"t","o">>,
      <<"f","o","r">>, <<"o","f">>, <<"w","i","t","h">>, <<"b","y">>,
      <<"v","i","a">>, <<"u","s","i","n","g">> }

\* the maximal runs of s of characters that satisfy In, from left to right
Runs(s, In(_)) ==
    LET starts == {i \in 1..Len(s) : In(s[i]) /\ (i = 1 \/ ~In(s[i - 1]))}
        nth(k) == CHOOSE i \in starts : Cardinality({j \in starts : j < i}) = k - 1
        end(i) == CHOOSE e \in i..Len(s) :
                      /\ \A k \in i..e : In(s[k])
                      /\ e = Len(s) \/ ~In(s[e + 1])
    IN  [k \in 1..Cardinality(starts) |-> SubSeq(s, nth(k), end(nth(k)))]

\* re.findall(r'\b[a-zA-Z]{4,}\b', title): the runs of word characters that
\* are letters only, four or more
FindWords(title) ==
    SelectSeq(Runs(title, LAMBDA c : IsLetter(c) \/ IsDigit(c) \/ c = "_"),
              LAMBDA w : Len(w) >= 4 /\ \A i \in 1..Len(w) : IsLetter(w[i]))

\* a count that keeps the stop words
analyze_keyword_frequency_KeepStopWords(papers) ==
    LET all_words ==
            Concat([i \in 1..Len(papers) |-> FindWords(lower(papers[i].title))])
        word_freq == Prefix(SortByCountDesc(Tally(all_words, <<>>)), 20)
    IN  << <<"top_keywords",
             [i \in 1..Len(word_freq) |->
                 [keyword |-> word_freq[i][1],
                  frequency |-> word_freq[i][2]]]>> >>

\* analyzers.py:112-132; Counter.most_common(20) is the stable descending
\* sort cut at twenty
analyze_keyword_frequency(papers) ==
    LET all_words ==
            Concat([i \in 1..Len(papers) |->
                SelectSeq(FindWords(lower(papers[i].title)),
                          LAMBDA word : word \notin StopWords)])
        word_freq == Prefix(SortByCountDesc(Tally(all_words, <<>>)), 20)
    IN  << <<"top_keywords",
             [i \in 1..Len(word_freq) |->
                 [keyword |-> word_freq[i][1],
                  frequency |-> word_freq[i][2]]]>> >>

\* models.py:65-73
TrendAnalysis(category, time_period, analysis_type, total_papers, data, error) ==
    [category |-> category, time_period |-> time_period,
     analysis_type |-> analysis_type, total_papers |-> total_papers,
     data |-> data, error |-> error]

\* analyzers.py:29-36
PeriodDays(time_period) ==
    CASE time_period = "1_month"  -> 30
      [] time_period = "3_months" -> 90
      [] time_period = "6_months" -> 180
      [] time_period = "1_year"   -> 365
      [] OTHER                    -> 90

\* analyzers.py:37-43
TrendQuery(category, time_period, now) ==
    <<"cat", ":">> \o category
        \o <<" ", "AND", " ", "submittedDate", ":", "[">>
        \o strftime(MinusDays(now, PeriodDays(time_period)))
        \o <<" ", "TO", " ">> \o strftime(now) \o <<"]">>

\* truth value of an Optional[str]: None and '' are false
Truthy(opt) == opt # None /\ opt[1] # <<>>

\* analyzers.py:20-85
TrendAnalyzer_analyze_trends(category, time_period, analysis_type, now, outcome) ==
    Except(Then(ArxivAPI_search(TrendQuery(category, time_period, now),
                                100, "submittedDate", outcome),
                LAMBDA results :
                    Ok(IF Truthy(results.error)
                       THEN TrendAnalysis(category, time_period, analysis_type,
                                0, <<>>, results.error)
                       ELSE TrendAnalysis(category, time_period, analysis_type,
                                Len(results.papers),
                                CASE analysis_type = "publication_count" ->
                                         analyze_publication_count(results.papers)
                                  [] analysis_type = "top_authors" ->
                                         analyze_top_authors(results.papers)
                                  [] analysis_type = "keyword_frequency" ->
                                         analyze_keyword_frequency(results.papers)
                                  [] OTHER -> <<>>,
                                None))),
           LAMBDA m : TrendAnalysis(category, time_period, analysis_type,
                                    0, <<>>, Some(m)))

\* the value of a string of decimal digits
RECURSIVE DigitsValue(_)
DigitsValue(ds) ==
    IF ds = <<>> THEN 0
    ELSE 10 * DigitsValue(SubSeq(ds, 1, Len(ds) - 1))
         + (Ord(ds[Len(ds)]) - Ord("0"))

\* int(s): optional blanks around an optional sign and decimal digits, which
\* single underscores may separate; the message of the ValueError is kept up
\* to the literal it quotes
ParseInt(s) ==
    LET t      == strip(s)
        signed == t # <<>> /\ Head(t) \in {"+", "-"}
        body   == IF signed THEN Tail(t) ELSE t
        ds     == SelectSeq(body, LAMBDA c : c # "_")
    IN  IF /\ ds # <<>>
           /\ \A i \in 1..Len(ds) : IsDigit(ds[i])
           /\ body[1] # "_" /\ body[Len(body)] # "_"
           /\ \A i \in 1..(Len(body) - 1) : ~(body[i] = "_" /\ body[i + 1] = "_")
        THEN Ok(IF signed /\ Head(t) = "-" THEN 0 - DigitsValue(ds)
                ELSE DigitsValue(ds))
        ELSE Raise(<<"invalid literal for int() with base 10">>)

\* models.py:54-62; citations_per_year is kept in tenths
CitationInfo(paper, estimated_citations, tenths_per_year, h_index, note) ==
    [arxiv_id |-> paper.id, title |-> paper.title,
     estimated_citations |-> estimated_citations,
     citations_per_year |-> tenths_per_year,
     h_index_contribution |-> h_index, note |-> note]

\* round(a / b, 1) in tenths, a >= 0, b > 0: the tenth nearest to the double
\* a / b.  When a / b = k / 20 lies half way between two tenths, the double
\* is exact if 5 divides k (a multiple of 1/4) and the tie goes to the even
\* tenth; otherwise the double is the 53-bit rounding of k / 5 scaled by a
\* power of two, above k / 20 exactly when the remainder of k * 2^e by 5 is
\* more than half of 5, with e = 52 - L and 5 * 2^L <= k < 5 * 2^(L+1).
RoundTenths(a, b) ==
    LET q == (10 * a) \div b
        r == (10 * a) % b
        k == 2 * q + 1
        n == CHOOSE n \in 0..13 : 5 * 2^n <= 8 * k /\ 8 * k < 5 * 2^(n + 1)
        pow == <<1, 2, 4, 3>>[((3 - n) % 4) + 1]
        above == ((k % 5) * pow) % 5 >= 3
    IN  IF 2 * r # b THEN (IF 2 * r > b THEN q + 1 ELSE q)
        ELSE IF k % 5 = 0 THEN (IF q % 2 = 1 THEN q + 1 ELSE q)
        ELSE IF above THEN q + 1 ELSE q

PopularCategories ==
    { <<"c","s",".","A","I">>, <<"c","s",".","L","G">>,
      <<"c","s",".","C","V">>, <<"c","s",".","C","L">> }

\* an estimate that does not clamp the simulated count at zero
estimate_citations_Unclamped(paper, current_year, draw1, draw2) ==
    IF paper.published = <<>>
    THEN CitationInfo(paper, 0, 0, 0, <<"Could not determine publication date">>)
    ELSE LET pub_year == ParseInt(Prefix(paper.published, 4))
         IN  IF pub_year.raised
             THEN CitationInfo(paper, 0, 0, 0,
                      <<"Error estimating citations", ":", " ">> \o pub_year.msg)
             ELSE LET diff      == current_year - pub_year.value
                      age_years == IF diff > 1 THEN diff ELSE 1
                      raw       == age_years * draw1 - draw2
                      base      == raw
                      base_citations ==
                          IF \E i \in 1..Len(paper.categories) :
                                 paper.categories[i] \in PopularCategories
                          THEN (3 * base) \div 2
                          ELSE base
                  IN  CitationInfo(paper, base_citations,
                          RoundTenths(base_citations, age_years),
                          IF base_citations < 10 THEN base_citations ELSE 10,
                          <<"Citation data is estimated/simulated as arXiv doesn't track citations directly">>)

\* an estimate whose failure note is empty
estimate_citations_SilentError(paper, current_year, draw1, draw2) ==
    IF paper.published = <<>>
    THEN CitationInfo(paper, 0, 0, 0, <<"Could not determine publication date">>)
    ELSE LET pub_year == ParseInt(Prefix(paper.published, 4))
         IN  IF pub_year.raised
             THEN CitationInfo(paper, 0, 0, 0,
                      <<>>)
             ELSE LET diff      == current_year - pub_year.value
                      age_years == IF diff > 1 THEN diff ELSE 1
                      raw       == age_years * draw1 - draw2
                      base      == IF raw > 0 THEN raw ELSE 0
                      base_citations ==
                          IF \E i \in 1..Len(paper.categories) :
                                 paper.categories[i] \in PopularCategories
                          THEN (3 * base) \div 2
                          ELSE base
                  IN  CitationInfo(paper, base_citations,
                          RoundTenths(base_citations, age_years),
                          IF base_citations < 10 THEN base_citations ELSE 10,
                          <<"Citation data is estimated/simulated as arXiv doesn't track citations directly">>)

\* analyzers.py:138-186; draw1 and draw2 are the two random.randint draws
estimate_citations(paper, current_year, draw1, draw2) ==
    IF paper.published = <<>>
    THEN CitationInfo(paper, 0, 0, 0, <<"Could not determine publication date">>)
    ELSE LET pub_year == ParseInt(Prefix(paper.published, 4))
         IN  IF pub_year.raised
             THEN CitationInfo(paper, 0, 0, 0,
                      <<"Error estimating citations", ":", " ">> \o pub_year.msg)
             ELSE LET diff      == current_year - pub_year.value
                      age_years == IF diff > 1 THEN diff ELSE 1
                      raw       == age_years * draw1 - draw2
                      base      == IF raw > 0 THEN raw ELSE 0
                      base_citations ==
                          IF \E i \in 1..Len(paper.categories) :
                                 paper.categories[i] \in PopularCategories
                          THEN (3 * base) \div 2
                          ELSE base
                  IN  CitationInfo(paper, base_citations,
                          RoundTenths(base_citations, age_years),
                          IF base_citations < 10 THEN base_citations ELSE 10,
                          <<"Citation data is estimated/simulated as arXiv doesn't track citations directly">>)

\* str.split(): the runs of non-blank characters
split(s) == Runs(s, LAMBDA c : c \notin Whitespace)

\* a query with a clause for every category of the seed
RelatedQuery_AllCategories(paper) ==
    LET title_words == split(lower(paper.title))
        cat_terms   == [i \in 1..Len(paper.categories) |->
                           <<"cat", ":">> \o paper.categories[i]]
        key_words   == Prefix(SelectSeq(title_words,
                           LAMBDA word : Len(word) > 3 /\ word \notin StopWords), 3)
        word_terms  == [i \in 1..Len(key_words) |->
                           <<"\"">> \o key_words[i] \o <<"\"">>]
        search_terms == cat_terms \o word_terms
    IN  IF search_terms # <<>>
        THEN join(<<" ", "OR", " ">>, search_terms)
        ELSE IF paper.categories # <<>> THEN paper.categories[1]
             ELSE <<"c","s",".","A","I">>

\* analyzers.py:203-229
RelatedQuery(paper) ==
    LET title_words == split(lower(paper.title))
        cat_terms   == [i \in 1..Len(Prefix(paper.categories, 2)) |->
                           <<"cat", ":">> \o paper.categories[i]]
        key_words   == Prefix(SelectSeq(title_words,
                           LAMBDA word : Len(word) > 3 /\ word \notin StopWords), 3)
        word_terms  == [i \in 1..Len(key_words) |->
                           <<"\"">> \o key_words[i] \o <<"\"">>]
        search_terms == cat_terms \o word_terms
    IN  IF search_terms # <<>>
        THEN join(<<" ", "OR", " ">>, search_terms)
        ELSE IF paper.categories # <<>> THEN paper.categories[1]
             ELSE <<"c","s",".","A","I">>

\* a finder that does not drop the seed
RelatedPaperFinder_find_related_papers_KeepSeed(paper, max_results, outcome) ==
    Except(Then(ArxivAPI_search(RelatedQuery(paper), max_results + 5,
                                "relevance", outcome),
                LAMBDA results : Ok(Prefix(results.papers, max_results))),
           LAMBDA m : <<>>)

\* analyzers.py:195-244
RelatedPaperFinder_find_related_papers(paper, max_results, outcome) ==
    Except(Then(ArxivAPI_search(RelatedQuery(paper), max_results + 5,
                                "relevance", outcome),
                LAMBDA results :
                    Ok(Prefix(SelectSeq(results.papers, LAMBDA p : p.id # paper.id),
                              max_results))),
           LAMBDA m : <<>>)

----------------------------------------------------------------------------
(* server.py: the capability operations of ArxivMCPServer.  Each takes, *)
(* after its arguments, what the service does on its requests.           *)

\* {"error": str(e), "papers": []}
ErrorWithPapers(m) == [error |-> Some(m), papers |-> <<>>]

\* {"error": str(e)}
ErrorOnly(m) == [error |-> Some(m)]

\* [paper.to_dict() for paper in papers]
Dicts(papers) == [i \in 1..Len(papers) |-> to_dict(papers[i])]

\* server.py:277-296
Server_search_arxiv(query, max_results, sort_by, outcome) ==
    Except(Then(ArxivAPI_search(query, max_results, sort_by, outcome),
                LAMBDA results :
                    Ok([query |-> query,
                        total_results |-> results.total_results,
                        papers |-> Dicts(results.papers),
                        error |-> results.error])),
           ErrorWithPapers)

\* server.py:298-310
Server_get_paper(arxiv_id, outcome) ==
    Except(Then(ArxivAPI_get_paper(arxiv_id, outcome),
                LAMBDA paper :
                    Ok(IF paper # None THEN to_dict(paper[1])
                       ELSE [error |-> Some(<<"Paper not found">>)])),
           ErrorOnly)

\* server.py:312-324
Server_summarize_paper(arxiv_id, outcome) ==
    Except(Then(ArxivAPI_get_paper(arxiv_id, outcome),
                LAMBDA paper :
                    Ok(IF paper # None THEN format_paper_summary(paper[1])
                       ELSE <<"Error", ":", " ", "Paper not found">>)),
           LAMBDA m : <<"Error", ":", " ">> \o m)

\* server.py:326-338
Server_search_by_author(author_name, max_results, outcome) ==
    Except(Server_search_arxiv(build_author_query(author_name), max_results,
                               "submittedDate", outcome),
           ErrorWithPapers)

\* server.py:340-353
Server_search_by_category(category, max_results, sort_by, outcome) ==
    Except(Server_search_arxiv(build_category_query(category), max_results,
                               sort_by, outcome),
           ErrorWithPapers)

\* server.py:363-373
RecentQuery(category, days_back, now) ==
    LET date_query == build_date_range_query(MinusDays(now, days_back), now)
    IN  IF category # <<>>
        THEN combine_queries(<<build_category_query(category), date_query>>)
        ELSE date_query

\* server.py:355-379
Server_get_recent_papers(category, days_back, max_results, now, outcome) ==
    Except(Server_search_arxiv(RecentQuery(category, days_back, now),
                               max_results, "submittedDate", outcome),
           ErrorWithPapers)

\* a batch fetch that gives up at the first id without a paper
RECURSIVE FetchAll_StopAtFailure(_, _)
FetchAll_StopAtFailure(arxiv_ids, outcomes) ==
    IF arxiv_ids = <<>> THEN Ok(<<>>)
    ELSE Then(ArxivAPI_get_paper(Head(arxiv_ids), Head(outcomes)),
              LAMBDA paper :
                  IF paper = None THEN Ok(<<>>)
                  ELSE Then(FetchAll_StopAtFailure(Tail(arxiv_ids), Tail(outcomes)),
                            LAMBDA papers : Ok(paper \o papers)))

\* server.py:391-395, 488-492: one get_paper per id, in order; a paper found
\* (an optional of length one) is appended
RECURSIVE FetchAll(_, _)
FetchAll(arxiv_ids, outcomes) ==
    IF arxiv_ids = <<>> THEN Ok(<<>>)
    ELSE Then(ArxivAPI_get_paper(Head(arxiv_ids), Head(outcomes)),
              LAMBDA paper :
                  Then(FetchAll(Tail(arxiv_ids), Tail(outcomes)),
                       LAMBDA papers : Ok(paper \o papers)))

\* server.py:387-388
DefaultFields == <<"authors", "categories", "abstract", "published">>

\* server.py:381-404
Server_compare_papers(arxiv_ids, comparison_fields, outcomes) ==
    Except(Then(FetchAll(arxiv_ids, outcomes),
                LAMBDA papers :
                    Ok(IF papers = <<>>
                       THEN <<"Error", ":", " ", "No valid papers found for comparison">>
                       ELSE PaperComparator_compare_papers(papers,
                                IF comparison_fields = None THEN DefaultFields
                                ELSE comparison_fields[1]))),
           LAMBDA m : <<"Error comparing papers", ":", " ">> \o m)

\* server.py:406-431: outcomes[1] answers the fetch of the seed, outcomes[2]
\* the search
Server_find_related_papers(arxiv_id, max_results, outcomes) ==
    Except(Then(ArxivAPI_get_paper(arxiv_id, outcomes[1]),
                LAMBDA original_paper :
                    IF original_paper = None
                    THEN Ok([error |-> Some(<<"Could not find original paper">>),
                             papers |-> <<>>])
                    ELSE Then(RelatedPaperFinder_find_related_papers(
                                  original_paper[1], max_results, outcomes[2]),
                              LAMBDA related_papers :
                                  Ok([original_paper |-> to_dict(original_paper[1]),
                                      related_papers |-> Dicts(related_papers),
                                      total_found |-> Len(related_papers)]))),
           ErrorWithPapers)

\* server.py:433-453
Server_get_paper_citations(arxiv_id, current_year, draw1, draw2, outcome) ==
    Except(Then(ArxivAPI_get_paper(arxiv_id, outcome),
                LAMBDA paper :
                    Ok(IF paper = None
                       THEN [error |-> Some(<<"Paper not found">>)]
                       ELSE estimate_citations(paper[1], current_year, draw1, draw2))),
           ErrorOnly)

\* server.py:455-478; a dict is the sequence of its <<key, value>> items, and
\* **analysis.data puts the items of data between total_papers and error
Server_analyze_trends(category, time_period, analysis_type, now, outcome) ==
    Except(Then(TrendAnalyzer_analyze_trends(category, time_period,
                                             analysis_type, now, outcome),
                LAMBDA analysis :
                    Ok(<< <<"category", analysis.category>>,
                          <<"time_period", analysis.time_period>>,
                          <<"analysis_type", analysis.analysis_type>>,
                          <<"total_papers", analysis.total_papers>> >>
                       \o analysis.data
                       \o << <<"error", analysis.error>> >>)),
           LAMBDA m : << <<"error", Some(m)>> >>)

\* export_papers without its try/except
Server_export_papers_Unguarded(arxiv_ids, format, include_abstract, outcomes) ==
    Then(FetchAll(arxiv_ids, outcomes),
         LAMBDA papers :
             IF papers = <<>>
             THEN Ok(<<"Error", ":", " ", "No valid papers found for export">>)
             ELSE PaperExporter_export_papers(papers,
                      ExportConfig(format, include_abstract, TRUE, TRUE)))

\* server.py:480-506
Server_export_papers(arxiv_ids, format, include_abstract, outcomes) ==
    Except(Then(FetchAll(arxiv_ids, outcomes),
                LAMBDA papers :
                    IF papers = <<>>
                    THEN Ok(<<"Error", ":", " ", "No valid papers found for export">>)
                    ELSE PaperExporter_export_papers(papers,
                             ExportConfig(format, include_abstract, TRUE, TRUE))),
           LAMBDA m : <<"Error exporting papers", ":", " ">> \o m)

----------------------------------------------------------------------------
(* The feeds the service may answer with *)

Url1 == <<"http", ":", "/", "/", "arxiv", ".", "org", "/", "abs", "/",
          "2","3","0","1",".","0","7","v","1">>

Url2 == <<"http", ":", "/", "/", "arxiv", ".", "org", "/", "abs", "/",
          "c","s","/","0","0","1">>

Date1 == <<"2","0","2","4","-","0","1","-","1","5",
           "T","1","0",":","0","0",":","0","0","Z">>

Date2 == <<"2","0","2","0","-","0","2","-","0","3",
           "T","0","9",":","3","0",":","0","0","Z">>

PdfLink(href) == [type |-> Some(PdfType), href |-> Some(href)]

HtmlLink == [type |-> Some(<<"text/html">>), href |-> Some(Url1)]

Entry1 ==
    [title      |-> Elem(<<" ","D","e","e","p","\n","N","e","t","s"," ">>),
     authors    |-> <<Elem(<<"A","d","a"," ">>), Elem(<<"B","o","b">>)>>,
     summary    |-> Elem(<<"\n","W","e"," ","{","x","}","\n">>),
     id         |-> Elem(Url1),
     published  |-> Elem(Date1),
     categories |-> <<Some(<<"c","s",".","A","I">>), Some(<<"c","s",".","L","G">>)>>,
     links      |-> <<HtmlLink, PdfLink(<<"p","1">>)>>]

Entry2 ==
    [title      |-> Elem(<<"G","r","a","p","h","s">>),
     authors    |-> <<Elem(<<"B","o","b">>)>>,
     summary    |-> Elem(<<"O","n"," ","g","r","a","p","h","s">>),
     id         |-> Elem(Url2),
     published  |-> Elem(Date2),
     categories |-> <<Some(<<"m","a","t","h",".","C","O">>)>>,
     links      |-> <<PdfLink(<<"p","2">>)>>]

\* the variants of an entry with one sub-element missing or malformed
Defects(e) ==
    { [e EXCEPT !.title = Absent],
      [e EXCEPT !.title = Elem(<<>>)],
      [e EXCEPT !.authors = <<>>],
      [e EXCEPT !.authors = <<Absent>> \o @],
      [e EXCEPT !.authors = @ \o <<Elem(<<>>)>>],
      [e EXCEPT !.summary = Absent],
      [e EXCEPT !.summary = Elem(<<>>)],
      [e EXCEPT !.id = Absent],
      [e EXCEPT !.id = Elem(<<>>)],
      [e EXCEPT !.id = Elem(<<"h", "/">>)],
      [e EXCEPT !.published = Absent],
      [e EXCEPT !.published = Elem(<<>>)],
      [e EXCEPT !.published = Elem(<<"2","0","2","4">>)],
      [e EXCEPT !.categories = <<>>],
      [e EXCEPT !.categories = <<None, Some(<<>>)>> \o @],
      [e EXCEPT !.links = <<>>],
      [e EXCEPT !.links = <<[type |-> None, href |-> Some(Url1)],
                            [type |-> Some(PdfType), href |-> None]>> \o @] }

\* the entries of the feeds of the parser's specification
EntryPool == {Entry1, Entry2} \cup Defects(Entry1)

\* the entries of the feeds the service answers with in Spec
SvcEntries ==
    { Entry1, Entry2,
      [Entry2 EXCEPT !.title = Elem(<<>>)],
      [Entry1 EXCEPT !.id = Absent, !.title = Absent] }

MaxFeed == 2

RECURSIVE SeqsUpTo(_, _)
SeqsUpTo(S, n) ==
    IF n = 0 THEN {<<>>}
    ELSE LET shorter == SeqsUpTo(S, n - 1)
         IN  shorter \cup {<<x>> \o t : x \in S, t \in {u \in shorter : Len(u) = n - 1}}

Statuses == {200, 404, 503}

Response(status, wellFormed, entries) ==
    [kind |-> "response", msg |-> <<>>, status |-> status,
     wellFormed |-> wellFormed, entries |-> entries]

TransportFailures ==
    { [kind |-> "timeout", msg |-> <<>>, status |-> 0,
       wellFormed |-> FALSE, entries |-> <<>>],
      [kind |-> "connect", msg |-> <<"All connection attempts failed">>,
       status |-> 0, wellFormed |-> FALSE, entries |-> <<>>] }

Outcomes ==
    TransportFailures
    \cup {Response(st, FALSE, <<>>) : st \in Statuses}
    \cup {Response(200, TRUE, f) : f \in SeqsUpTo(SvcEntries, MaxFeed)}

----------------------------------------------------------------------------
(* Spec: one capability call at a time, each against what the service      *)
(* does on the requests of that call.                                      *)

Queries ==
    { <<>>,
      <<"cat", ":", "cs", ".", "AI">>,
      <<"d","e","e","p"," ","n","e","t","s">> }

SortKeys == {"relevance", "lastUpdatedDate", "submittedDate"}

Limits == {1, 10}

ArxivIds ==
    { <<"2","3","0","1",".","0","7">>,
      <<"a","r","X","i","v",":","2","3","0","1",".","0","7","v","2">>,
      <<"c","s","/","0","0","1","v","4">>,
      <<"2","3","0","1",".","v","v","1","1">>,
      <<"v","a","r","X","i","v",":","3","7">> }

Formats == {"bibtex", "json", "csv", "markdown", "xml"}

Init ==
    /\ call = [op |-> "none"]
    /\ svc = <<>>
    /\ reqs = <<>>
    /\ result = Ok(None)
    /\ http_client = "open"
    /\ chains = [c \in {1, 2} |->
                    [op |-> "none", args |-> <<>>, pc |-> "idle",
                     after_close |-> FALSE, sent |-> <<>>, got |-> <<>>,
                     pending |-> 0, papers |-> <<>>, value |-> Ok(None),
                     result |-> Ok(None)]]

\* no call is in progress: the host dispatches one capability call at a time
Idle == call.op = "none"

ApiSearch ==
    \E query \in Queries, max_results \in Limits, sort_by \in SortKeys,
       o \in Outcomes :
        /\ Idle
        /\ UNCHANGED <<http_client, chains>>
        /\ call' = [op |-> "ArxivAPI.search", query |-> query,
                    max_results |-> max_results, sort_by |-> sort_by]
        /\ svc' = <<o>>
        /\ reqs' = <<SearchRequest(query, max_results, sort_by)>>
        /\ result' = ArxivAPI_search(query, max_results, sort_by, o)

ApiGetPaper ==
    \E arxiv_id \in ArxivIds, o \in Outcomes :
        /\ Idle
        /\ UNCHANGED <<http_client, chains>>
        /\ call' = [op |-> "ArxivAPI.get_paper", arxiv_id |-> arxiv_id]
        /\ svc' = <<o>>
        /\ reqs' = <<IdListRequest(CleanId(arxiv_id))>>
        /\ result' = ArxivAPI_get_paper(arxiv_id, o)

\* what the service does on one fetch by id of a batch
FetchOutcomes ==
    TransportFailures
    \cup { Response(404, FALSE, <<>>), Response(200, FALSE, <<>>),
           Response(200, TRUE, <<>>), Response(200, TRUE, <<Entry1>>),
           Response(200, TRUE, <<Entry2>>),
           Response(200, TRUE, <<[Entry2 EXCEPT !.title = Elem(<<>>)], Entry1>>) }

Authors == {<<"B","o","b">>, <<"A","d","a"," ","\"","L","\"">>}

Categories == {<<"c","s",".","A","I">>, <<"m","a","t","h",".","C","O">>}

\* datetime.now()
Nows == {[y |-> 2024, m |-> 3, d |-> 1], [y |-> 2025, m |-> 1, d |-> 5]}

MaxIds == 2

\* the id lists of the batch operations
IdLists ==
    {[i \in 1..n |-> IF i % 2 = 1
                     THEN <<"2","3","0","1",".","0","7","v","1">>
                     ELSE <<"c","s","/","0","0","1">>] : n \in 0..MaxIds}

SearchArxiv ==
    \E query \in Queries, max_results \in Limits, sort_by \in SortKeys,
       o \in Outcomes :
        /\ Idle
        /\ UNCHANGED <<http_client, chains>>
        /\ call' = [op |-> "search_arxiv", query |-> query,
                    max_results |-> max_results, sort_by |-> sort_by]
        /\ svc' = <<o>>
        /\ reqs' = <<SearchRequest(query, max_results, sort_by)>>
        /\ result' = Server_search_arxiv(query, max_results, sort_by, o)

GetPaper ==
    \E arxiv_id \in ArxivIds, o \in Outcomes :
        /\ Idle
        /\ UNCHANGED <<http_client, chains>>
        /\ call' = [op |-> "get_paper", arxiv_id |-> arxiv_id]
        /\ svc' = <<o>>
        /\ reqs' = <<IdListRequest(CleanId(arxiv_id))>>
        /\ result' = Server_get_paper(arxiv_id, o)

SummarizePaper ==
    \E arxiv_id \in ArxivIds, o \in Outcomes :
        /\ Idle
        /\ UNCHANGED <<http_client, chains>>
        /\ call' = [op |-> "summarize_paper", arxiv_id |-> arxiv_id]
        /\ svc' = <<o>>
        /\ reqs' = <<IdListRequest(CleanId(arxiv_id))>>
        /\ result' = Server_summarize_paper(arxiv_id, o)

SearchByAuthor ==
    \E author_name \in Authors, max_results \in Limits, o \in Outcomes :
        /\ Idle
        /\ UNCHANGED <<http_client, chains>>
        /\ call' = [op |-> "search_by_author", author_name |-> author_name,
                    max_results |-> max_results]
        /\ svc' = <<o>>
        /\ reqs' = <<SearchRequest(build_author_query(author_name),
                                   max_results, "submittedDate")>>
        /\ result' = Server_search_by_author(author_name, max_results, o)

SearchByCategory ==
    \E category \in Categories, max_results \in Limits,
       sort_by \in {"lastUpdatedDate", "submittedDate"}, o \in Outcomes :
        /\ Idle
        /\ UNCHANGED <<http_client, chains>>
        /\ call' = [op |-> "search_by_category", category |-> category,
                    max_results |-> max_results, sort_by |-> sort_by]
        /\ svc' = <<o>>
        /\ reqs' = <<SearchRequest(build_category_query(category),
                                   max_results, sort_by)>>
        /\ result' = Server_search_by_category(category, max_results, sort_by, o)

GetRecentPapers ==
    \E category \in Categories \cup {<<>>}, days_back \in {1, 7, 30},
       max_results \in Limits, now \in Nows, o \in Outcomes :
        /\ Idle
        /\ UNCHANGED <<http_client, chains>>
        /\ call' = [op |-> "get_recent_papers", category |-> category,
                    days_back |-> days_back, max_results |-> max_results,
                    now |-> now]
        /\ svc' = <<o>>
        /\ reqs' = <<SearchRequest(RecentQuery(category, days_back, now),
                                   max_results, "submittedDate")>>
        /\ result' = Server_get_recent_papers(category, days_back, max_results,
                                              now, o)

ComparePapers ==
    \E arxiv_ids \in IdLists,
       comparison_fields \in {None, Some(<<"authors", "citations">>),
                              Some(<<"abstract", "published", "categories">>)} :
        \E outcomes \in [1..Len(arxiv_ids) -> FetchOutcomes] :
            /\ Idle
            /\ UNCHANGED <<http_client, chains>>
            /\ call' = [op |-> "compare_papers", arxiv_ids |-> arxiv_ids,
                        comparison_fields |-> comparison_fields]
            /\ svc' = outcomes
            /\ reqs' = [i \in 1..Len(arxiv_ids) |->
                           IdListRequest(CleanId(arxiv_ids[i]))]
            /\ result' = Server_compare_papers(arxiv_ids, comparison_fields,
                                               outcomes)

FindRelatedPapers ==
    \E arxiv_id \in ArxivIds, max_results \in Limits,
       o1 \in FetchOutcomes, o2 \in Outcomes :
        LET seed == ArxivAPI_get_paper(arxiv_id, o1).value
        IN  /\ Idle
            /\ UNCHANGED <<http_client, chains>>
            /\ call' = [op |-> "find_related_papers", arxiv_id |-> arxiv_id,
                        max_results |-> max_results]
            /\ svc' = IF seed = None THEN <<o1>> ELSE <<o1, o2>>
            /\ reqs' = <<IdListRequest(CleanId(arxiv_id))>>
                       \o (IF seed = None THEN <<>>
                           ELSE <<SearchRequest(RelatedQuery(seed[1]),
                                                max_results + 5, "relevance")>>)
            /\ result' = Server_find_related_papers(arxiv_id, max_results,
                                                    <<o1, o2>>)

GetPaperCitations ==
    \E arxiv_id \in ArxivIds, now \in Nows, draw1 \in {5, 25},
       draw2 \in {0, 20}, o \in Outcomes :
        /\ Idle
        /\ UNCHANGED <<http_client, chains>>
        /\ call' = [op |-> "get_paper_citations", arxiv_id |-> arxiv_id,
                    now |-> now, draw1 |-> draw1, draw2 |-> draw2]
        /\ svc' = <<o>>
        /\ reqs' = <<IdListRequest(CleanId(arxiv_id))>>
        /\ result' = Server_get_paper_citations(arxiv_id, now.y, draw1, draw2, o)

AnalyzeTrends ==
    \E category \in Categories,
       time_period \in {"1_month", "3_months", "6_months", "1_year", "2_years"},
       analysis_type \in {"publication_count", "top_authors",
                          "keyword_frequency", "other"},
       now \in Nows, o \in Outcomes :
        /\ Idle
        /\ UNCHANGED <<http_client, chains>>
        /\ call' = [op |-> "analyze_trends", category |-> category,
                    time_period |-> time_period,
                    analysis_type |-> analysis_type, now |-> now]
        /\ svc' = <<o>>
        /\ reqs' = <<SearchRequest(TrendQuery(category, time_period, now),
                                   100, "submittedDate")>>
        /\ result' = Server_analyze_trends(category, time_period,
                                           analysis_type, now, o)

ExportPapersCall ==
    \E arxiv_ids \in IdLists, format \in Formats, include_abstract \in BOOLEAN :
        \E outcomes \in [1..Len(arxiv_ids) -> FetchOutcomes] :
            /\ Idle
            /\ UNCHANGED <<http_client, chains>>
            /\ call' = [op |-> "export_papers", arxiv_ids |-> arxiv_ids,
                        format |-> format, include_abstract |-> include_abstract]
            /\ svc' = outcomes
            /\ reqs' = [i \in 1..Len(arxiv_ids) |->
                           IdListRequest(CleanId(arxiv_ids[i]))]
            /\ result' = Server_export_papers(arxiv_ids, format,
                                              include_abstract, outcomes)

\* the caller takes the result; the server keeps nothing of the call
Return ==
    /\ ~Idle
    /\ UNCHANGED <<http_client, chains>>
    /\ call' = [op |-> "none"]
    /\ svc' = <<>>
    /\ reqs' = <<>>
    /\ result' = Ok(None)

Next ==
    \/ ApiSearch
    \/ ApiGetPaper
    \/ SearchArxiv
    \/ GetPaper
    \/ SummarizePaper
    \/ SearchByAuthor
    \/ SearchByCategory
    \/ GetRecentPapers
    \/ ComparePapers
    \/ FindRelatedPapers
    \/ GetPaperCitations
    \/ AnalyzeTrends
    \/ ExportPapersCall
    \/ Return

Spec == Init /\ [][Next]_vars

----------------------------------------------------------------------------
(* SpecParse: the response parser applied to the body of one response *)

MaxEntries == 2

ParseContents ==
    {[wellFormed |-> FALSE, entries |-> <<>>]}
    \cup {[wellFormed |-> TRUE, entries |-> f] : f \in SeqsUpTo(EntryPool, MaxEntries)}

InitParse ==
    /\ call = [op |-> "none"]
    /\ svc \in {<<c>> : c \in ParseContents}
    /\ reqs = <<>>
    /\ result = Ok(None)
    /\ http_client = "open"
    /\ chains = [c \in {1, 2} |->
                    [op |-> "none", args |-> <<>>, pc |-> "idle",
                     after_close |-> FALSE, sent |-> <<>>, got |-> <<>>,
                     pending |-> 0, papers |-> <<>>, value |-> Ok(None),
                     result |-> Ok(None)]]

ParseResponse ==
    /\ Idle
    /\ UNCHANGED <<http_client, chains>>
    /\ call' = [op |-> "_parse_response"]
    /\ result' = Ok(parse_response(svc[1]))
    /\ UNCHANGED <<svc, reqs>>

NextParse == ParseResponse

SpecParse == InitParse /\ [][NextParse]_vars

----------------------------------------------------------------------------
(* Readers of the exported text: json.loads and csv.reader, the parsers a  *)
(* consumer of the export applies.  A parsed JSON value is [t, v]: a       *)
(* string with its characters, null, a list of values, or an object with   *)
(* its <<key, value>> members in document order.                           *)

JStr(v) == [t |-> "str", v |-> v]

JNull == [t |-> "null", v |-> <<>>]

JList(v) == [t |-> "list", v |-> v]

JDict(v) == [t |-> "dict", v |-> v]

JsonWs == {" ", "\n", "\t", "\r", "  ", "    ", "      "}

\* the first position from i on that holds no JSON white space
SkipWs(s, i) ==
    CHOOSE j \in i..(Len(s) + 1) :
        /\ j = Len(s) + 1 \/ s[j] \notin JsonWs
        /\ \A k \in i..(j - 1) : s[k] \in JsonWs

JFail == [ok |-> FALSE, v |-> JNull, i |-> 0]

\* the characters of a string literal from position i (after the opening
\* quote) to its closing quote; an escape stands for its character, a raw
\* control character is an error
RECURSIVE JsonChars(_, _, _)
JsonChars(s, i, acc) ==
    IF i > Len(s) THEN JFail
    ELSE IF s[i] = "\"" THEN [ok |-> TRUE, v |-> JStr(acc), i |-> i + 1]
    ELSE IF s[i] \in {"\n", "\t", "\r"} THEN JFail
    ELSE IF s[i] = "\\"
         THEN IF i + 1 > Len(s) THEN JFail
              ELSE CASE s[i + 1] = "\"" -> JsonChars(s, i + 2, Append(acc, "\""))
                     [] s[i + 1] = "\\" -> JsonChars(s, i + 2, Append(acc, "\\"))
                     [] s[i + 1] = "/"  -> JsonChars(s, i + 2, Append(acc, "/"))
                     [] s[i + 1] = "n"  -> JsonChars(s, i + 2, Append(acc, "\n"))
                     [] s[i + 1] = "t"  -> JsonChars(s, i + 2, Append(acc, "\t"))
                     [] s[i + 1] = "r"  -> JsonChars(s, i + 2, Append(acc, "\r"))
                     [] OTHER -> JFail
    ELSE JsonChars(s, i + 1, Append(acc, s[i]))

RECURSIVE JsonValue(_, _)
RECURSIVE JsonItems(_, _, _)
RECURSIVE JsonMembers(_, _, _)

\* the value that starts at position i
JsonValue(s, i) ==
    IF i > Len(s) THEN JFail
    ELSE CASE s[i] = "\"" -> JsonChars(s, i + 1, <<>>)
           [] s[i] = "null" -> [ok |-> TRUE, v |-> JNull, i |-> i + 1]
           [] s[i] = "[" ->
                  LET j == SkipWs(s, i + 1)
                  IN  IF j <= Len(s) /\ s[j] = "]"
                      THEN [ok |-> TRUE, v |-> JList(<<>>), i |-> j + 1]
                      ELSE JsonItems(s, j, <<>>)
           [] s[i] = "{" ->
                  LET j == SkipWs(s, i + 1)
                  IN  IF j <= Len(s) /\ s[j] = "}"
                      THEN [ok |-> TRUE, v |-> JDict(<<>>), i |-> j + 1]
                      ELSE JsonMembers(s, j, <<>>)
           [] OTHER -> JFail

\* the items of an array from position i, up to its closing bracket
JsonItems(s, i, acc) ==
    LET item == JsonValue(s, i)
        j    == SkipWs(s, item.i)
    IN  IF ~item.ok \/ j > Len(s) THEN JFail
        ELSE IF s[j] = "]"
             THEN [ok |-> TRUE, v |-> JList(Append(acc, item.v)), i |-> j + 1]
        ELSE IF s[j] = ","
             THEN JsonItems(s, SkipWs(s, j + 1), Append(acc, item.v))
        ELSE JFail

\* the members of an object from position i, up to its closing brace
JsonMembers(s, i, acc) ==
    IF i > Len(s) \/ s[i] # "\"" THEN JFail
    ELSE LET key == JsonChars(s, i + 1, <<>>)
             c   == SkipWs(s, key.i)
         IN  IF ~key.ok \/ c > Len(s) \/ s[c] # ":" THEN JFail
             ELSE LET val == JsonValue(s, SkipWs(s, c + 1))
                      j   == SkipWs(s, val.i)
                      all == Append(acc, <<key.v.v, val.v>>)
                  IN  IF ~val.ok \/ j > Len(s) THEN JFail
                      ELSE IF s[j] = "}"
                           THEN [ok |-> TRUE, v |-> JDict(all), i |-> j + 1]
                      ELSE IF s[j] = ","
                           THEN JsonMembers(s, SkipWs(s, j + 1), all)
                      ELSE JFail

\* json.loads(s)
loads(s) ==
    LET r == JsonValue(s, SkipWs(s, 1))
    IN  IF r.ok /\ SkipWs(s, r.i) = Len(s) + 1
        THEN Ok(r.v)
        ELSE Raise(<<"JSONDecodeError">>)

\* csv.reader: the text of a quoted field from position i (after the opening
\* quote) to its closing quote; a doubled quote stands for one
RECURSIVE CsvQuoted(_, _, _)
CsvQuoted(s, i, acc) ==
    IF i > Len(s) THEN [v |-> acc, i |-> i]
    ELSE IF s[i] = "\""
         THEN IF i + 1 <= Len(s) /\ s[i + 1] = "\""
              THEN CsvQuoted(s, i + 2, Append(acc, "\""))
              ELSE [v |-> acc, i |-> i + 1]
    ELSE CsvQuoted(s, i + 1, Append(acc, s[i]))

\* the position from i on where an unquoted stretch ends: at a delimiter, at
\* a line break or at the end of the text
CsvPlainEnd(s, i) ==
    CHOOSE j \in i..(Len(s) + 1) :
        /\ j = Len(s) + 1 \/ s[j] \in {",", "\r", "\n"}
        /\ \A k \in i..(j - 1) : s[k] \notin {",", "\r", "\n"}

\* one field from position i: quoted when it starts with a quote
CsvReadField(s, i) ==
    IF i <= Len(s) /\ s[i] = "\""
    THEN LET q == CsvQuoted(s, i + 1, <<>>)
             e == CsvPlainEnd(s, q.i)
         IN  [v |-> q.v \o SubSeq(s, q.i, e - 1), i |-> e]
    ELSE LET e == CsvPlainEnd(s, i)
         IN  [v |-> SubSeq(s, i, e - 1), i |-> e]

\* the fields of the record that starts at position i, and the position after
\* its line break
RECURSIVE CsvRecord(_, _, _)
CsvRecord(s, i, acc) ==
    LET f   == CsvReadField(s, i)
        row == Append(acc, f.v)
    IN  IF f.i > Len(s) THEN [v |-> row, i |-> f.i]
        ELSE IF s[f.i] = "," THEN CsvRecord(s, f.i + 1, row)
        ELSE IF s[f.i] = "\r" /\ f.i + 1 <= Len(s) /\ s[f.i + 1] = "\n"
             THEN [v |-> row, i |-> f.i + 2]
        ELSE [v |-> row, i |-> f.i + 1]

\* list(csv.reader(...)) over the text
RECURSIVE CsvRecords(_, _, _)
CsvRecords(s, i, acc) ==
    IF i > Len(s) THEN acc
    ELSE LET r == CsvRecord(s, i, <<>>)
         IN  CsvRecords(s, r.i, Append(acc, r.v))

reader(s) == CsvRecords(s, 1, <<>>)

----------------------------------------------------------------------------
(* SpecExport: the exporter applied to papers the parser has built *)

\* entries whose texts hold braces, delimiters, quotes and line breaks
ExportEntries ==
    { Entry1, Entry2,
      [Entry2 EXCEPT !.title = Elem(<<"{", "a", ",", "\"">>)],
      [Entry2 EXCEPT !.summary = Elem(<<"x", "}", "\n", "#", "#", " ", "y">>)],
      [Entry2 EXCEPT !.authors = <<Elem(<<"{">>), Elem(<<"A", ";", "\n", "b">>)>>],
      [Entry2 EXCEPT !.categories = <<Some(<<"}">>), Some(<<"#", "#", " ", "z">>)>>],
      [Entry2 EXCEPT !.id = Elem(<<"h", "/", "{", ".", "1">>)],
      [Entry1 EXCEPT !.id = Elem(<<>>), !.published = Absent,
                     !.categories = <<>>, !.authors = <<>>] }

MaxExport == 2

ExportPapers ==
    { parse_response([wellFormed |-> TRUE, entries |-> f]) :
          f \in SeqsUpTo(ExportEntries, MaxExport) }

Export ==
    \E papers \in ExportPapers, format \in Formats,
       include_abstract \in BOOLEAN, include_categories \in BOOLEAN,
       include_urls \in BOOLEAN :
        LET config == ExportConfig(format, include_abstract,
                                   include_categories, include_urls)
        IN  /\ Idle
            /\ UNCHANGED <<http_client, chains>>
            /\ call' = [op |-> "PaperExporter.export_papers",
                        papers |-> papers, config |-> config,
                        objects |-> IF format = "json"
                                    THEN export_json_objects(papers, config)
                                    ELSE PaperObjects(papers)]
            /\ result' = PaperExporter_export_papers(papers, config)
            /\ UNCHANGED <<svc, reqs>>

NextExport ==
    \/ Export
    \/ Return

SpecExport == Init /\ [][NextExport]_vars

----------------------------------------------------------------------------
(* SpecAnalyze: the analyzers applied to papers the parser has built, and  *)
(* the two analyzers that search, each against what the service does.      *)

\* seven words of four letters, the n-th seven of the alphabet
SevenWords(n) ==
    Concat([k \in 1..7 |->
               <<"w", "o", "r", Ascii[Ord("a") + 7 * (n - 1) + k - 1], " ">>])

\* eleven names
ManyAuthors == [k \in 1..11 |-> Elem(<<Ascii[Ord("a") + k - 1]>>)]

\* entries whose dates share months, whose authors repeat and whose titles
\* hold stop words, short words and words next to digits or underscores;
\* three of them bring twenty-one keywords, one of them eleven authors
AnalysisEntries ==
    { Entry1,
      [Entry1 EXCEPT !.title = Elem(<<"N","e","t","s"," ","f","o","r"," ",
                                      "d","e","e","p"," ","b","e","r","t","2",
                                      "v","e","c"," ","d","a","t","a","_","s",
                                      "e","t","s"," ","W","i","t","h"," ",
                                      "U","s","i","n","g">>),
                     !.authors = <<Elem(<<"B","o","b">>)>>,
                     !.published = Elem(<<"2","0","2","4","-","0","1","-","2","0">>)],
      [Entry2 EXCEPT !.published = Elem(<<"2","0","2","4","-","0","2","-","0","1">>),
                     !.authors = <<Elem(<<"C","y">>), Elem(<<"B","o","b">>),
                                   Elem(<<"C","y">>)>>],
      [Entry2 EXCEPT !.title = Elem(SevenWords(1)), !.authors = ManyAuthors,
                     !.published = Absent],
      [Entry2 EXCEPT !.title = Elem(SevenWords(2)),
                     !.published = Elem(<<"2","0","2","0">>)],
      [Entry2 EXCEPT !.title = Elem(SevenWords(3))] }

MaxPapers == 3

AnalysisPapers ==
    { parse_response([wellFormed |-> TRUE, entries |-> f]) :
          f \in SeqsUpTo(AnalysisEntries, MaxPapers) }

\* the texts a published element may hold
PublishedTexts ==
    { Elem(Date1), Elem(Date2), Absent,
      Elem(<<"n",".","d",".">>), Elem(<<"2","0">>), Elem(<<" ","1","9","9">>),
      Elem(<<"2","_","0","2","-","0","1">>), Elem(<<"2","0","3","0","-","0","1">>),
      Elem(<<"2","0","-","1">>), Elem(<<"2","0","0","4">>) }

\* the papers citations are estimated for, and the seeds of a related search
CitationPapers ==
    { parse_response([wellFormed |-> TRUE,
                      entries |-> <<[e EXCEPT !.published = p]>>])[1] :
          e \in {Entry1, Entry2}, p \in PublishedTexts }

SeedPapers ==
    { parse_response([wellFormed |-> TRUE, entries |-> <<e>>])[1] :
          e \in {Entry1, Entry2,
                 [Entry2 EXCEPT !.title = Absent, !.categories = <<>>],
                 [Entry1 EXCEPT !.id = Absent],
                 [Entry2 EXCEPT
                     !.title = Elem(<<"U","s","i","n","g"," ","D","e","e","p"," ",
                                      "n","e","t","s",","," ","w","i","t","h","\t",
                                      "G","R","A","P","H","S"," ","o","v","e","r"," ",
                                      "t","r","e","e","s">>),
                     !.categories = <<Some(<<"c","s",".","C","V">>),
                                      Some(<<"c","s",".","C","L">>),
                                      Some(<<"m","a","t","h",".","C","O">>)>>],
                 [Entry2 EXCEPT !.title = Elem(<<"O","n"," ","a"," ","s","e","t">>),
                                !.categories = <<>>]} }

PublicationCount ==
    \E papers \in AnalysisPapers :
        /\ Idle
        /\ UNCHANGED <<http_client, chains>>
        /\ call' = [op |-> "TrendAnalyzer._analyze_publication_count",
                    papers |-> papers]
        /\ result' = Ok(analyze_publication_count(papers))
        /\ UNCHANGED <<svc, reqs>>

TopAuthors ==
    \E papers \in AnalysisPapers :
        /\ Idle
        /\ UNCHANGED <<http_client, chains>>
        /\ call' = [op |-> "TrendAnalyzer._analyze_top_authors",
                    papers |-> papers]
        /\ result' = Ok(analyze_top_authors(papers))
        /\ UNCHANGED <<svc, reqs>>

KeywordFrequency ==
    \E papers \in AnalysisPapers :
        /\ Idle
        /\ UNCHANGED <<http_client, chains>>
        /\ call' = [op |-> "TrendAnalyzer._analyze_keyword_frequency",
                    papers |-> papers]
        /\ result' = Ok(analyze_keyword_frequency(papers))
        /\ UNCHANGED <<svc, reqs>>

TrendAnalyze ==
    \E category \in Categories,
       time_period \in {"1_month", "1_year", "2_years"},
       analysis_type \in {"publication_count", "top_authors",
                          "keyword_frequency", "other"},
       now \in Nows, o \in Outcomes :
        /\ Idle
        /\ UNCHANGED <<http_client, chains>>
        /\ call' = [op |-> "TrendAnalyzer.analyze_trends",
                    category |-> category, time_period |-> time_period,
                    analysis_type |-> analysis_type, now |-> now]
        /\ svc' = <<o>>
        /\ reqs' = <<SearchRequest(TrendQuery(category, time_period, now),
                                   100, "submittedDate")>>
        /\ result' = TrendAnalyzer_analyze_trends(category, time_period,
                                                  analysis_type, now, o)

EstimateCitations ==
    \E paper \in CitationPapers, now \in Nows, draw1 \in 5..25, draw2 \in 0..20 :
        /\ Idle
        /\ UNCHANGED <<http_client, chains>>
        /\ call' = [op |-> "CitationAnalyzer.estimate_citations",
                    paper |-> paper, now |-> now,
                    draw1 |-> draw1, draw2 |-> draw2]
        /\ result' = Ok(estimate_citations(paper, now.y, draw1, draw2))
        /\ UNCHANGED <<svc, reqs>>

FindRelated ==
    \E paper \in SeedPapers, max_results \in Limits, o \in Outcomes :
        /\ Idle
        /\ UNCHANGED <<http_client, chains>>
        /\ call' = [op |-> "RelatedPaperFinder.find_related_papers",
                    paper |-> paper, max_results |-> max_results]
        /\ svc' = <<o>>
        /\ reqs' = <<SearchRequest(RelatedQuery(paper), max_results + 5,
                                   "relevance")>>
        /\ result' = RelatedPaperFinder_find_related_papers(paper, max_results, o)

NextAnalyze ==
    \/ PublicationCount
    \/ TopAuthors
    \/ KeywordFrequency
    \/ TrendAnalyze
    \/ EstimateCitations
    \/ FindRelated
    \/ Return

SpecAnalyze == Init /\ [][NextAnalyze]_vars

----------------------------------------------------------------------------
(* SpecSteps: two call chains of one server, each running from one        *)
(* suspension point (an awaited GET) to the next while the other waits,   *)
(* and the closing of the shared client.                                  *)

\* a chain that issues the request of the next id without waiting
Request_Eager(ch) ==
    IF ch.pc # "ready" /\ ch.op \notin {"compare_papers", "export_papers"} THEN None
    ELSE CASE ch.op = "ArxivAPI.search" ->
                  IF ch.got # <<>> THEN None
                  ELSE Some(SearchRequest(ch.args.query, ch.args.max_results,
                                          ch.args.sort_by))
           [] ch.op \in {"ArxivAPI.get_paper", "get_paper_citations"} ->
                  IF ch.got # <<>> THEN None
                  ELSE Some(IdListRequest(CleanId(ch.args.arxiv_id)))
           [] ch.op \in {"compare_papers", "export_papers"} ->
                  IF Len(ch.sent) >= Len(ch.args.arxiv_ids) THEN None
                  ELSE Some(IdListRequest(
                           CleanId(ch.args.arxiv_ids[Len(ch.sent) + 1])))
           [] ch.op = "find_related_papers" ->
                  IF ch.got = <<>>
                  THEN Some(IdListRequest(CleanId(ch.args.arxiv_id)))
                  ELSE IF Len(ch.got) = 1 /\ ch.papers # <<>>
                  THEN Some(SearchRequest(
                           RelatedQuery(ch.papers[1]),
                           ch.args.max_results + 5, "relevance"))
                  ELSE None
           [] OTHER -> None

\* a search that issues its request again after a failure
Request_Retry(ch) ==
    IF ch.pc # "ready" THEN None
    ELSE CASE ch.op = "ArxivAPI.search" ->
                  IF ch.got # <<>> /\ (Len(ch.got) > 1 \/ ArxivAPI_search(<<>>, 1, "relevance", ch.got[1]).value.error = None) THEN None
                  ELSE Some(SearchRequest(ch.args.query, ch.args.max_results,
                                          ch.args.sort_by))
           [] ch.op \in {"ArxivAPI.get_paper", "get_paper_citations"} ->
                  IF ch.got # <<>> THEN None
                  ELSE Some(IdListRequest(CleanId(ch.args.arxiv_id)))
           [] ch.op \in {"compare_papers", "export_papers"} ->
                  IF Len(ch.got) >= Len(ch.args.arxiv_ids) THEN None
                  ELSE Some(IdListRequest(
                           CleanId(ch.args.arxiv_ids[Len(ch.got) + 1])))
           [] ch.op = "find_related_papers" ->
                  IF ch.got = <<>>
                  THEN Some(IdListRequest(CleanId(ch.args.arxiv_id)))
                  ELSE IF Len(ch.got) = 1 /\ ch.papers # <<>>
                  THEN Some(SearchRequest(
                           RelatedQuery(ch.papers[1]),
                           ch.args.max_results + 5, "relevance"))
                  ELSE None
           [] OTHER -> None

\* a related-paper search that does not look at the seed fetch
Request_SearchAnyway(ch) ==
    IF ch.pc # "ready" THEN None
    ELSE CASE ch.op = "ArxivAPI.search" ->
                  IF ch.got # <<>> THEN None
                  ELSE Some(SearchRequest(ch.args.query, ch.args.max_results,
                                          ch.args.sort_by))
           [] ch.op \in {"ArxivAPI.get_paper", "get_paper_citations"} ->
                  IF ch.got # <<>> THEN None
                  ELSE Some(IdListRequest(CleanId(ch.args.arxiv_id)))
           [] ch.op \in {"compare_papers", "export_papers"} ->
                  IF Len(ch.got) >= Len(ch.args.arxiv_ids) THEN None
                  ELSE Some(IdListRequest(
                           CleanId(ch.args.arxiv_ids[Len(ch.got) + 1])))
           [] ch.op = "find_related_papers" ->
                  IF ch.got = <<>>
                  THEN Some(IdListRequest(CleanId(ch.args.arxiv_id)))
                  ELSE IF Len(ch.got) = 1 /\ TRUE
                  THEN Some(SearchRequest(
                           IF ch.papers # <<>> THEN RelatedQuery(ch.papers[1])
                           ELSE <<"c","s",".","A","I">>,
                           ch.args.max_results + 5, "relevance"))
                  ELSE None
           [] OTHER -> None

\* the request a chain issues where it stands, if any: api.py:31-33, 58-59;
\* server.py:390-392, 487-489, 414-420 with analyzers.py:232
Request(ch) ==
    IF ch.pc # "ready" THEN None
    ELSE CASE ch.op = "ArxivAPI.search" ->
                  IF ch.got # <<>> THEN None
                  ELSE Some(SearchRequest(ch.args.query, ch.args.max_results,
                                          ch.args.sort_by))
           [] ch.op \in {"ArxivAPI.get_paper", "get_paper_citations"} ->
                  IF ch.got # <<>> THEN None
                  ELSE Some(IdListRequest(CleanId(ch.args.arxiv_id)))
           [] ch.op \in {"compare_papers", "export_papers"} ->
                  IF Len(ch.got) >= Len(ch.args.arxiv_ids) THEN None
                  ELSE Some(IdListRequest(
                           CleanId(ch.args.arxiv_ids[Len(ch.got) + 1])))
           [] ch.op = "find_related_papers" ->
                  IF ch.got = <<>>
                  THEN Some(IdListRequest(CleanId(ch.args.arxiv_id)))
                  ELSE IF Len(ch.got) = 1 /\ ch.papers # <<>>
                  THEN Some(SearchRequest(
                           RelatedQuery(ch.papers[1]),
                           ch.args.max_results + 5, "relevance"))
                  ELSE None
           [] OTHER -> None

\* the chain takes the answer o to its request: api.py:34-51, 60-67;
\* server.py:392-395, 489-492, 414-422
Deliver(ch, o) ==
    [ch EXCEPT
        !.got = @ \o <<o>>,
        !.pc = "ready",
        !.papers =
            CASE ch.op \in {"compare_papers", "export_papers"} ->
                     @ \o ArxivAPI_get_paper(ch.args.arxiv_ids[Len(ch.got) + 1], o).value
              [] ch.op = "find_related_papers" /\ ch.got = <<>> ->
                     ArxivAPI_get_paper(ch.args.arxiv_id, o).value
              [] OTHER -> @,
        !.value =
            CASE ch.op = "ArxivAPI.search" ->
                     ArxivAPI_search(ch.args.query, ch.args.max_results,
                                     ch.args.sort_by, o)
              [] ch.op = "ArxivAPI.get_paper" ->
                     ArxivAPI_get_paper(ch.args.arxiv_id, o)
              [] ch.op = "find_related_papers" /\ ch.got # <<>> ->
                     RelatedPaperFinder_find_related_papers(ch.papers[1],
                         ch.args.max_results, o)
              [] ch.op = "get_paper_citations" ->
                     Server_get_paper_citations(ch.args.arxiv_id,
                         ch.args.current_year, ch.args.draw1, ch.args.draw2, o)
              [] OTHER -> @]

\* a chain that sends its requests through a closed client
RECURSIVE Continue_IgnoreClosed(_, _)
Continue_IgnoreClosed(ch, client) ==
    LET r == Request(ch)
    IN  IF r # None
        THEN IF TRUE
             THEN Continue_IgnoreClosed([ch EXCEPT !.sent = @ \o r, !.pending = @ + 1,
                                      !.pc = "waiting"], client)
             ELSE Continue_IgnoreClosed(Deliver(ch,
                      [kind |-> "closed",
                       msg |-> <<"Cannot send a request, as the client has been closed.">>,
                       status |-> 0, wellFormed |-> FALSE, entries |-> <<>>]),
                      client)
        ELSE IF ch.pending > 0 THEN ch
        ELSE [ch EXCEPT
                 !.pc = "done",
                 !.result =
                     CASE ch.op = "compare_papers" ->
                              Ok(IF ch.papers = <<>>
                                 THEN <<"Error", ":", " ",
                                        "No valid papers found for comparison">>
                                 ELSE PaperComparator_compare_papers(ch.papers,
                                                                     DefaultFields))
                       [] ch.op = "export_papers" ->
                              Except(IF ch.papers = <<>>
                                     THEN Ok(<<"Error", ":", " ",
                                               "No valid papers found for export">>)
                                     ELSE PaperExporter_export_papers(ch.papers,
                                              ExportConfig(ch.args.format,
                                                  ch.args.include_abstract, TRUE, TRUE)),
                                     LAMBDA m : <<"Error exporting papers", ":", " ">> \o m)
                       [] ch.op = "find_related_papers" ->
                              IF ch.papers = <<>>
                              THEN Ok(ErrorWithPapers(<<"Could not find original paper">>))
                              ELSE Ok([original_paper |-> to_dict(ch.papers[1]),
                                       related_papers |-> Dicts(ch.value.value),
                                       total_found |-> Len(ch.value.value)])
                       [] OTHER -> ch.value]

\* the chain runs on to its next suspension point or to its return; a
\* closed client raises in get without suspending (httpx: RuntimeError),
\* which the chain handles like any failed request
RECURSIVE Continue(_, _)
Continue(ch, client) ==
    LET r == Request(ch)
    IN  IF r # None
        THEN IF client = "open"
             THEN Continue([ch EXCEPT !.sent = @ \o r, !.pending = @ + 1,
                                      !.pc = "waiting"], client)
             ELSE Continue(Deliver(ch,
                      [kind |-> "closed",
                       msg |-> <<"Cannot send a request, as the client has been closed.">>,
                       status |-> 0, wellFormed |-> FALSE, entries |-> <<>>]),
                      client)
        ELSE IF ch.pending > 0 THEN ch
        ELSE [ch EXCEPT
                 !.pc = "done",
                 !.result =
                     CASE ch.op = "compare_papers" ->
                              Ok(IF ch.papers = <<>>
                                 THEN <<"Error", ":", " ",
                                        "No valid papers found for comparison">>
                                 ELSE PaperComparator_compare_papers(ch.papers,
                                                                     DefaultFields))
                       [] ch.op = "export_papers" ->
                              Except(IF ch.papers = <<>>
                                     THEN Ok(<<"Error", ":", " ",
                                               "No valid papers found for export">>)
                                     ELSE PaperExporter_export_papers(ch.papers,
                                              ExportConfig(ch.args.format,
                                                  ch.args.include_abstract, TRUE, TRUE)),
                                     LAMBDA m : <<"Error exporting papers", ":", " ">> \o m)
                       [] ch.op = "find_related_papers" ->
                              IF ch.papers = <<>>
                              THEN Ok(ErrorWithPapers(<<"Could not find original paper">>))
                              ELSE Ok([original_paper |-> to_dict(ch.papers[1]),
                                       related_papers |-> Dicts(ch.value.value),
                                       total_found |-> Len(ch.value.value)])
                       [] OTHER -> ch.value]

\* a capability call, or a call of the gateway, begins on a free chain: a
\* chain is one call with its local variables, the requests it has issued
\* (sent), the answers it has got and the number of its requests in flight
\* (pending)
StartCall ==
    \E c \in {1, 2} :
        \E new \in
            { [op |-> "ArxivAPI.search",
               args |-> [query |-> <<"d","e","e","p"," ","n","e","t","s">>,
                         max_results |-> 1, sort_by |-> "relevance"]],
              [op |-> "ArxivAPI.get_paper",
               args |-> [arxiv_id |-> <<"2","3","0","1",".","0","7","v","1">>]],
              [op |-> "find_related_papers",
               args |-> [arxiv_id |-> <<"2","3","0","1",".","0","7","v","1">>,
                         max_results |-> 1]] }
            \cup { [op |-> "get_paper_citations",
                    args |-> [arxiv_id |-> <<"c","s","/","0","0","1">>,
                              current_year |-> 2024,
                              draw1 |-> draws[1], draw2 |-> draws[2]]] :
                       draws \in { <<5, 20>>, <<25, 0>> } }
            \cup { [op |-> op,
                    args |-> [arxiv_ids |-> ids, format |-> "json",
                              include_abstract |-> TRUE]] :
                       op \in {"compare_papers", "export_papers"},
                       ids \in { <<>>,
                                 << <<"c","s","/","0","0","1">> >>,
                                 << <<"2","3","0","1",".","0","7","v","1">>,
                                    <<"c","s","/","0","0","1">> >> } } :
            /\ chains[c].pc \in {"idle", "done"}
            /\ chains' =
                   [chains EXCEPT ![c] =
                       Continue([op |-> new.op, args |-> new.args, pc |-> "ready",
                                 after_close |-> (http_client = "closed"),
                                 sent |-> <<>>, got |-> <<>>, pending |-> 0,
                                 papers |-> <<>>, value |-> Ok(None),
                                 result |-> Ok(None)],
                                http_client)]
            /\ UNCHANGED <<call, svc, reqs, result, http_client>>

\* an answer that lands in the local variables of every chain
Receive_SharedPapers ==
    \E c \in {1, 2} :
        \E o \in { [kind |-> "timeout", msg |-> <<>>, status |-> 0,
                    wellFormed |-> FALSE, entries |-> <<>>],
                   Response(200, TRUE, <<>>),
                   Response(200, TRUE, <<Entry1>>),
                   Response(200, TRUE, <<Entry2, Entry1>>) } :
            /\ chains[c].pending > 0
            /\ chains' =
                   [d \in {1, 2} |->
                       IF d = c
                       THEN Continue(Deliver([chains[c] EXCEPT !.pending = @ - 1], o),
                                     http_client)
                       ELSE [chains[d] EXCEPT
                                !.papers = IF chains[d].pc = "waiting"
                                           THEN Deliver(chains[c], o).papers
                                           ELSE @]]
            /\ UNCHANGED <<call, svc, reqs, result, http_client>>

\* the service answers the request in flight of a chain, which runs on
Receive ==
    \E c \in {1, 2} :
        \E o \in { [kind |-> "timeout", msg |-> <<>>, status |-> 0,
                    wellFormed |-> FALSE, entries |-> <<>>],
                   Response(200, TRUE, <<>>),
                   Response(200, TRUE, <<Entry1>>),
                   Response(200, TRUE, <<Entry2, Entry1>>) } :
            /\ chains[c].pending > 0
            /\ chains' =
                   [chains EXCEPT ![c] =
                       Continue(Deliver([chains[c] EXCEPT !.pending = @ - 1], o),
                                http_client)]
            /\ UNCHANGED <<call, svc, reqs, result, http_client>>

\* api.py:144-146, server.py:508-510
Close ==
    /\ http_client = "open"
    /\ http_client' = "closed"
    /\ UNCHANGED <<call, svc, reqs, result, chains>>

NextSteps ==
    \/ StartCall
    \/ Receive
    \/ Close

SpecSteps == Init /\ [][NextSteps]_vars

----------------------------------------------------------------------------
(* The claims *)

\* the transport failed or the service answered with a non-2xx status
Failed(o) == o.kind # "response" \/ o.status \notin 200..299

SearchReturned == call.op = "ArxivAPI.search"

\* C1: when the transport fails or the service answers with a non-2xx
\* status, ArxivAPI.search returns (does not raise) a SearchResult with no
\* papers and an error that is a non-empty string.
C1_FailureGivesNonEmptyError ==
    (SearchReturned /\ Failed(svc[1])) =>
        /\ ~result.raised
        /\ result.value.papers = <<>>
        /\ result.value.error # None
        /\ result.value.error[1] # <<>>

\* C2: every SearchResult that ArxivAPI.search returns has no papers when
\* its error is present.
C2_ErrorImpliesNoPapers ==
    SearchReturned =>
        (result.value.error # None => result.value.papers = <<>>)

C2_Witness ==
    /\ SearchReturned
    /\ result.value.error # None
    /\ svc[1].kind = "response"

\* the number of entries of a feed whose extraction succeeds
Parseable(entries) ==
    Cardinality({i \in 1..Len(entries) : parse_paper_entry(entries[i]) # None})

\* C3: a well-formed feed of k parseable entries gives total_results = k =
\* the number of papers, no error and the query passed in; total_results
\* always equals the number of papers returned.
C3_TotalIsPaperCount ==
    SearchReturned =>
        /\ result.value.total_results = Len(result.value.papers)
        /\ (~Failed(svc[1]) /\ svc[1].wellFormed) =>
              /\ result.value.total_results = Parseable(svc[1].entries)
              /\ result.value.error = None
              /\ result.value.query = call.query

C3_Witness ==
    /\ SearchReturned
    /\ ~Failed(svc[1]) /\ svc[1].wellFormed
    /\ Len(svc[1].entries) = 2
    /\ result.value.total_results = 1

\* C4: a 2xx response whose body is not well-formed XML gives a SearchResult
\* whose error is set.
C4_MalformedBodyGivesError ==
    (SearchReturned /\ ~Failed(svc[1]) /\ ~svc[1].wellFormed) =>
        result.value.error # None

ParseReturned == call.op = "_parse_response"

\* C5: an entry with a missing or malformed sub-element, also one that is
\* present without text, still gives a Paper: no entry of a well-formed feed
\* is dropped.
C5_NoEntryDropped ==
    (ParseReturned /\ svc[1].wellFormed) =>
        Len(result.value) = Len(svc[1].entries)

Extracted(e) == parse_paper_entry(e) # None

\* C6: parsing yields the Papers of the entries whose extraction succeeds, in
\* document order; an entry without a title element gets "Unknown Title";
\* entries after a skipped or defaulted entry are still parsed.
C6_DocumentOrder ==
    (ParseReturned /\ svc[1].wellFormed) =>
        LET good == SelectSeq(svc[1].entries, Extracted)
        IN  /\ Len(result.value) = Len(good)
            /\ \A i \in 1..Len(good) :
                  /\ result.value[i] = Paper_from_dict(parse_paper_entry(good[i])[1])
                  /\ ~good[i].title.present => result.value[i].title = UnknownTitle

C6_Witness ==
    /\ ParseReturned /\ svc[1].wellFormed
    /\ Len(svc[1].entries) = 2
    /\ ~Extracted(svc[1].entries[1])
    /\ ~svc[1].entries[2].title.present
    /\ Len(result.value) = 1
    /\ result.value[1].title = UnknownTitle

\* C7: every Paper the parser emits has a non-empty id and no two Papers of
\* one parsed response share an id.
C7_IdsNonEmptyAndUnique ==
    ParseReturned =>
        /\ \A i \in 1..Len(result.value) : result.value[i].id # <<>>
        /\ \A i, j \in 1..Len(result.value) :
              i # j => result.value[i].id # result.value[j].id

\* the operations of the server and of the gateway
Capabilities ==
    {"ArxivAPI.search", "ArxivAPI.get_paper", "search_arxiv", "get_paper",
     "summarize_paper", "search_by_author", "search_by_category",
     "get_recent_papers", "compare_papers", "find_related_papers",
     "get_paper_citations", "analyze_trends", "export_papers"}

\* C8: each of the eleven server operations and the two gateway operations
\* returns a value, whatever the service did on each of its requests: no
\* exception reaches the caller
C8_NoExceptionEscapes ==
    call.op \in Capabilities => ~result.raised

\* an export whose first fetch failed, whose second fetch found a paper and
\* whose format the exporter rejects: the caller gets the error text
C8_Witness ==
    /\ call.op = "export_papers"
    /\ call.format = "xml"
    /\ Len(svc) = 2
    /\ svc[1].kind = "timeout"
    /\ svc[2].kind = "response"
    /\ ~result.raised
    /\ Prefix(result.value, 1) = <<"Error exporting papers">>

ExportReturned == call.op = "PaperExporter.export_papers"

\* C9: PaperExporter.export_papers raises exactly when config.format is not
\* one of bibtex, json, csv, markdown, for any papers (the empty list too)
\* and toggles; for the four formats it returns text.
C9_RaisesIffUnsupported ==
    ExportReturned =>
        /\ result.raised <=> call.config.format \notin {"bibtex", "json", "csv", "markdown"}
        /\ ~result.raised => result.value \in Seq(STRING)

\* the exporter rejects a format it does not know, on the empty paper list
C9_Witness ==
    /\ ExportReturned
    /\ call.papers = <<>>
    /\ call.config.format = "xml"
    /\ result.raised
    /\ result.msg = <<"Unsupported format", ":", " ", "xml">>

\* C10: whatever braces occur in a paper's title, abstract, author names,
\* categories or id, and for every combination of toggles, each entry of the
\* bibtex export has as many '{' as '}'.
C10_BibtexBracesBalanced ==
    (ExportReturned /\ call.config.format = "bibtex") =>
        LET entries == [i \in 1..Len(call.papers) |->
                           BibtexEntry(call.papers[i], call.config)]
        IN  /\ result.value = join(<<"\n", "\n">>, entries)
            /\ \A i \in 1..Len(entries) :
                  count(entries[i], "{") = count(entries[i], "}")

\* the record a paper is expected to come back as: the fields the toggles
\* leave, with the paper's own values
JsonRecord(paper, config) ==
    JDict(<< <<<<"id">>, JStr(paper.id)>>,
             <<<<"title">>, JStr(paper.title)>>,
             <<<<"authors">>,
               JList([k \in 1..Len(paper.authors) |-> JStr(paper.authors[k])])>> >>
          \o (IF config.include_abstract
              THEN << <<<<"abstract">>, JStr(paper.abstract)>> >> ELSE <<>>)
          \o << <<<<"published">>, JStr(paper.published)>> >>
          \o (IF config.include_categories
              THEN << <<<<"categories">>,
                        JList([k \in 1..Len(paper.categories) |->
                                  JStr(paper.categories[k])])>> >>
              ELSE <<>>)
          \o (IF config.include_urls
              THEN << <<<<"arxiv_url">>,
                        IF paper.arxiv_url = None THEN JNull
                        ELSE JStr(paper.arxiv_url[1])>>,
                      <<<<"pdf_url">>, JStr(paper.pdf_url)>> >>
              ELSE <<>>))

\* C11: for every list of N papers and every combination of the toggles,
\* json.loads of the json export is a list of N records in the input order,
\* each with exactly the fields the toggles leave (abstract; categories;
\* arxiv_url and pdf_url) and the values of its paper.
C11_JsonRoundTrip ==
    (ExportReturned /\ call.config.format = "json") =>
        /\ ~result.raised
        /\ LET back == loads(result.value)
           IN  /\ ~back.raised
               /\ back.value.t = "list"
               /\ Len(back.value.v) = Len(call.papers)
               /\ \A i \in 1..Len(call.papers) :
                      back.value.v[i] = JsonRecord(call.papers[i], call.config)

\* two papers, one with a quote in its title, exported without their
\* abstracts and read back
C11_Witness ==
    /\ ExportReturned
    /\ call.config.format = "json"
    /\ ~call.config.include_abstract
    /\ call.config.include_urls
    /\ Len(call.papers) = 2
    /\ \E k \in 1..Len(call.papers[1].title) : call.papers[1].title[k] = "\""
    /\ ~loads(result.value).raised
    /\ Len(loads(result.value).value.v) = 2

\* the columns of the csv export under a config
CsvColumns(config) ==
    << <<"id">>, <<"title">>, <<"authors">>, <<"published">> >>
    \o (IF config.include_categories THEN << <<"categories">> >> ELSE <<>>)
    \o (IF config.include_urls THEN << <<"arxiv_url">>, <<"pdf_url">> >> ELSE <<>>)
    \o (IF config.include_abstract THEN << <<"abstract">> >> ELSE <<>>)

\* C12: for every list of papers and every combination of the toggles, the
\* csv export read by csv.reader has len(papers)+1 rows: a header of id,
\* title, authors, published and the columns the toggles enable, then one
\* row per paper in input order, also when the values hold commas, quotes,
\* semicolons or line breaks.
C12_CsvRowPerPaper ==
    (ExportReturned /\ call.config.format = "csv") =>
        /\ ~result.raised
        /\ LET rows == reader(result.value)
           IN  /\ Len(rows) = Len(call.papers) + 1
               /\ rows[1] = CsvColumns(call.config)
               /\ \A i \in 1..Len(call.papers) :
                      /\ Len(rows[i + 1]) = Len(rows[1])
                      /\ rows[i + 1][1] = call.papers[i].id
                      /\ rows[i + 1][2] = call.papers[i].title
                      /\ rows[i + 1][3] = join(<<";", " ">>, call.papers[i].authors)
                      /\ rows[i + 1][4] = call.papers[i].published

\* two papers, the first with a line break and a semicolon in an author's
\* name, the second with a comma and a quote in its title
C12_Witness ==
    /\ ExportReturned
    /\ call.config.format = "csv"
    /\ Len(call.papers) = 2
    /\ \E a \in 1..Len(call.papers[1].authors) :
           \E k \in 1..Len(call.papers[1].authors[a]) :
               call.papers[1].authors[a][k] = "\n"
    /\ \E k \in 1..Len(call.papers[2].title) : call.papers[2].title[k] = "\""
    /\ Len(reader(result.value)) = 3

\* the number of places of s where pat occurs
Occurrences(s, pat) ==
    Cardinality({i \in 1..(Len(s) - Len(pat) + 1) :
                    SubSeq(s, i, i + Len(pat) - 1) = pat})

AbstractLabel == <<"*", "*", "A", "b", "s", "t", "r", "a", "c", "t", ":", "*", "*">>

\* C13: for every list of N papers, whatever text the titles, authors and
\* categories hold, the markdown export without abstracts has exactly N
\* occurrences of '## ' and no '**Abstract:**' label; with abstracts it has
\* one '**Abstract:**' label per paper.
C13_MarkdownSections ==
    (ExportReturned /\ call.config.format = "markdown") =>
        /\ ~result.raised
        /\ ~call.config.include_abstract =>
               /\ Occurrences(result.value, <<"#", "#", " ">>) = Len(call.papers)
               /\ Occurrences(result.value, AbstractLabel) = 0
        /\ call.config.include_abstract =>
               Occurrences(result.value, AbstractLabel) = Len(call.papers)

\* a comes before b in the order of str: at the first place where they
\* differ a has ended or holds the smaller code point
Before(a, b) ==
    \E k \in 1..(Len(b)) :
        /\ k <= Len(a) + 1
        /\ \A m \in 1..(k - 1) : a[m] = b[m]
        /\ k > Len(a) \/ Ord(a[k]) < Ord(b[k])

\* the places of a sequence that hold x, and the first of them
Places(all, x) == {k \in 1..Len(all) : all[k] = x}

FirstPlace(all, x) == CHOOSE k \in Places(all, x) : \A m \in Places(all, x) : k <= m

\* top lists the most frequent items of all, each with its number of
\* occurrences: at most n of them, by descending count and, at equal counts,
\* in the order of first encounter; none left out occurs more often than one
\* listed, and none is left out while there is room
IsTopCount(top, all, n) ==
    LET items == {all[k] : k \in 1..Len(all)}
    IN  /\ Len(top) <= n
        /\ Len(top) = n \/ Len(top) = Cardinality(items)
        /\ \A i \in 1..Len(top) :
               /\ top[i][1] \in items
               /\ top[i][2] = Cardinality(Places(all, top[i][1]))
        /\ \A i, j \in 1..Len(top) :
               i < j =>
                   \/ top[i][2] > top[j][2]
                   \/ /\ top[i][2] = top[j][2]
                      /\ FirstPlace(all, top[i][1]) < FirstPlace(all, top[j][1])
        /\ \A x \in items :
               (\A i \in 1..Len(top) : top[i][1] # x) =>
                   \A i \in 1..Len(top) : Cardinality(Places(all, x)) <= top[i][2]

\* the months of the papers that have a date, paper by paper
MonthsOf(papers) ==
    LET dated == SelectSeq(papers, LAMBDA p : p.published # <<>>)
    IN  [k \in 1..Len(dated) |->
            SubSeq(dated[k].published, 1,
                   IF Len(dated[k].published) < 7 THEN Len(dated[k].published) ELSE 7)]

\* C14: publication_count maps every distinct 7-character prefix of
\* published among the papers (those that have a date) to the number of
\* papers with that prefix, with the keys in ascending order of str.
C14_MonthlyCountsSorted ==
    call.op = "TrendAnalyzer._analyze_publication_count" =>
        LET counts == result.value[1][2]
            months == MonthsOf(call.papers)
        IN  /\ ~result.raised
            /\ Len(result.value) = 1
            /\ result.value[1][1] = "monthly_counts"
            /\ {counts[i][1] : i \in 1..Len(counts)}
                   = {months[k] : k \in 1..Len(months)}
            /\ \A i \in 1..Len(counts) :
                   counts[i][2] = Cardinality(Places(months, counts[i][1]))
            /\ \A i, j \in 1..Len(counts) :
                   i < j => Before(counts[i][1], counts[j][1])

\* a paper of 2024-02 followed by two of 2024-01 gives {2024-01: 2, 2024-02: 1}
C14_Witness ==
    /\ call.op = "TrendAnalyzer._analyze_publication_count"
    /\ Len(call.papers) = 3
    /\ Len(call.papers[1].published) >= 7
    /\ SubSeq(call.papers[1].published, 1, 7) = <<"2","0","2","4","-","0","2">>
    /\ result.value[1][2] = << <<<<"2","0","2","4","-","0","1">>, 2>>,
                              <<<<"2","0","2","4","-","0","2">>, 1>> >>

\* the author names of the papers, paper by paper
AuthorsOf(papers) == Concat([p \in 1..Len(papers) |-> papers[p].authors])

\* C15: top_authors lists at most 10 authors, each with the number of
\* occurrences of that exact name over the author lists of the papers, by
\* descending count with ties in order of first encounter; no author left
\* out has a higher count than one listed.
C15_TopAuthors ==
    call.op = "TrendAnalyzer._analyze_top_authors" =>
        LET top == result.value[1][2]
        IN  /\ ~result.raised
            /\ Len(result.value) = 1
            /\ result.value[1][1] = "top_authors"
            /\ IsTopCount([i \in 1..Len(top) |->
                              <<top[i].author, top[i].paper_count>>],
                          AuthorsOf(call.papers), 10)

\* more than ten names, one of them twice and not the first encountered
C15_Witness ==
    /\ call.op = "TrendAnalyzer._analyze_top_authors"
    /\ Len(call.papers) = 2
    /\ Len(call.papers[1].authors) = 11
    /\ Len(result.value[1][2]) = 10
    /\ result.value[1][2][1] = [author |-> <<"C","y">>, paper_count |-> 2]
    /\ result.value[1][2][2] = [author |-> <<"a">>, paper_count |-> 1]

\* the keywords of a lower-cased title from left to right: the stretches
\* t[i..e] of at least 4 letters with no word character (letter, digit,
\* underscore) next to them on either side, stop words dropped
KeywordsIn(t) ==
    LET letters == {k \in 1..Len(t) : IsLetter(t[k])}
        others  == {k \in 1..Len(t) : IsDigit(t[k]) \/ t[k] = "_"}
        spans == {ie \in (1..Len(t)) \X (1..Len(t)) :
                     /\ ie[2] - ie[1] + 1 >= 4
                     /\ (ie[1]..ie[2]) \subseteq letters
                     /\ ie[1] - 1 \notin letters \cup others
                     /\ ie[2] + 1 \notin letters \cup others
                     /\ SubSeq(t, ie[1], ie[2]) \notin StopWords}
    IN  [k \in 1..Cardinality(spans) |->
            LET ie == CHOOSE ie \in spans :
                          Cardinality({x \in spans : x[1] < ie[1]}) = k - 1
            IN  SubSeq(t, ie[1], ie[2])]

KeywordsOf(papers) ==
    Concat([p \in 1..Len(papers) |-> KeywordsIn(lower(papers[p].title))])

\* C16: keyword_frequency lists at most 20 keywords, the lower-cased
\* alphabetic tokens of length at least 4 of the titles without the stop
\* words, each with its total number of occurrences, by descending count with
\* ties in order of first encounter.
C16_TopKeywords ==
    call.op = "TrendAnalyzer._analyze_keyword_frequency" =>
        LET top == result.value[1][2]
        IN  /\ ~result.raised
            /\ Len(result.value) = 1
            /\ result.value[1][1] = "top_keywords"
            /\ IsTopCount([i \in 1..Len(top) |->
                              <<top[i].keyword, top[i].frequency>>],
                          KeywordsOf(call.papers), 20)

\* twenty-one keywords in the titles, twenty listed, "worg" among them and
\* the last encountered left out
C16_Witness ==
    /\ call.op = "TrendAnalyzer._analyze_keyword_frequency"
    /\ Len(KeywordsOf(call.papers)) = 21
    /\ Len(result.value[1][2]) = 20
    /\ result.value[1][2][7] = [keyword |-> <<"w","o","r","g">>, frequency |-> 1]

\* titles with a stop word of four letters, a word next to a digit and a
\* word twice in two cases: only "nets" and "deep" are counted
C16_WitnessTokens ==
    /\ call.op = "TrendAnalyzer._analyze_keyword_frequency"
    /\ Len(call.papers) = 2
    /\ result.value[1][2] = << [keyword |-> <<"n","e","t","s">>, frequency |-> 2],
                              [keyword |-> <<"d","e","e","p">>, frequency |-> 2] >>

\* the year int() reads from the first four characters of published
ParseableYear(paper) ==
    paper.published # <<>> /\ ~ParseInt(Prefix(paper.published, 4)).raised

AgeYears(paper, now) ==
    LET diff == now.y - ParseInt(Prefix(paper.published, 4)).value
    IN  IF diff >= 1 THEN diff ELSE 1

\* C18: with a parseable publication year, whatever the draws and the
\* categories, estimated_citations is not negative, citations_per_year is a
\* tenth nearest to estimated_citations / ageYears with
\* ageYears = max(1, currentYear - pubYear), and h_index_contribution is
\* min(estimated_citations, 10).
C18_CitationMetrics ==
    (call.op = "CitationAnalyzer.estimate_citations" /\ ParseableYear(call.paper)) =>
        LET info == result.value
            age  == AgeYears(call.paper, call.now)
            off  == 10 * info.estimated_citations - info.citations_per_year * age
        IN  /\ info.estimated_citations >= 0
            /\ 2 * off <= age
            /\ 2 * off >= 0 - age
            /\ info.h_index_contribution =
                   (IF info.estimated_citations < 10
                    THEN info.estimated_citations ELSE 10)

\* a paper of 2004 in a popular category estimated in 2024: 20 * 5 - 9 = 91,
\* raised to 136, 6.8 a year, capped contribution
C18_Witness ==
    /\ call.op = "CitationAnalyzer.estimate_citations"
    /\ ParseableYear(call.paper)
    /\ AgeYears(call.paper, call.now) = 20
    /\ call.draw1 = 5 /\ call.draw2 = 9
    /\ result.value.estimated_citations = 136
    /\ result.value.citations_per_year = 68
    /\ result.value.h_index_contribution = 10

\* C19: when published is empty or its first four characters are not a
\* year int() reads, the estimate is all zeros with an explanatory note; the
\* call never raises and the note is never empty.
C19_UndatedEstimate ==
    call.op = "CitationAnalyzer.estimate_citations" =>
        /\ ~result.raised
        /\ result.value.note # <<>>
        /\ ~ParseableYear(call.paper) =>
               /\ result.value.estimated_citations = 0
               /\ result.value.citations_per_year = 0
               /\ result.value.h_index_contribution = 0

\* published "n.d.": zeros and the note of the failed conversion
C19_Witness ==
    /\ call.op = "CitationAnalyzer.estimate_citations"
    /\ call.paper.published = <<"n",".","d",".">>
    /\ ~result.raised
    /\ result.value.estimated_citations = 0
    /\ Len(result.value.note) > 3
    /\ SubSeq(result.value.note, 1, 3) = <<"Error estimating citations", ":", " ">>

\* the papers of the answer to a search: none when the search failed
Fetched(o) == IF Failed(o) THEN <<>> ELSE parse_response(o)

\* C17: when the search of analyze_trends fails, the report has
\* total_papers = 0, no data and an error, and the call does not raise;
\* otherwise total_papers is the number of fetched papers and there is no
\* error.
C17_TrendFailureReport ==
    call.op = "TrendAnalyzer.analyze_trends" =>
        /\ ~result.raised
        /\ Failed(svc[1]) =>
               /\ result.value.total_papers = 0
               /\ result.value.data = <<>>
               /\ result.value.error # None
        /\ ~Failed(svc[1]) =>
               /\ result.value.total_papers = Len(Fetched(svc[1]))
               /\ result.value.error = None

\* res keeps the order of all: it is all with some elements left out
IsSubsequence(res, all) ==
    \E f \in [1..Len(res) -> 1..Len(all)] :
        /\ \A i \in 1..Len(res) : res[i] = all[f[i]]
        /\ \A i, j \in 1..Len(res) : i < j => f[i] < f[j]

\* C20: find_related_papers issues one search, for limit + 5 results sorted
\* by relevance; its list has no paper with the id of the seed, at most
\* limit papers, in the order of the answer; when the search failed the list
\* is empty, and the call never raises.
C20_RelatedPapers ==
    call.op = "RelatedPaperFinder.find_related_papers" =>
        /\ Len(reqs) = 1
        /\ reqs[1].kind = "search"
        /\ reqs[1].max_results = call.max_results + 5
        /\ reqs[1].sortBy = "relevance"
        /\ ~result.raised
        /\ \A i \in 1..Len(result.value) : result.value[i].id # call.paper.id
        /\ Len(result.value) <= call.max_results
        /\ IsSubsequence(result.value, Fetched(svc[1]))
        /\ Failed(svc[1]) => result.value = <<>>

\* the seed comes first in the answer and is left out
C20_Witness ==
    /\ call.op = "RelatedPaperFinder.find_related_papers"
    /\ call.max_results = 1
    /\ Len(Fetched(svc[1])) = 2
    /\ call.paper.id # <<>>
    /\ Fetched(svc[1])[1].id = call.paper.id
    /\ result.value = <<Fetched(svc[1])[2]>>

\* the first paper of each answered fetch that holds one, in the order of the
\* requests
FetchedInOrder(outcomes) ==
    LET found == SelectSeq([k \in 1..Len(outcomes) |-> k],
                           LAMBDA k : Fetched(outcomes[k]) # <<>>)
    IN  [j \in 1..Len(found) |-> Fetched(outcomes[found[j]])[1]]

\* C21: compare_papers and export_papers skip every id whose fetch fails or
\* finds no paper, work on exactly the fetched papers in the order of the
\* ids, and return the 'No valid papers' text exactly when no id gave a
\* paper.
C21_BatchSkipsFailures ==
    /\ call.op = "compare_papers" =>
           LET papers == FetchedInOrder(svc)
               fields == IF call.comparison_fields = None THEN DefaultFields
                         ELSE call.comparison_fields[1]
           IN  /\ Len(svc) = Len(call.arxiv_ids)
               /\ ~result.raised
               /\ (result.value = <<"Error", ":", " ", "No valid papers found for comparison">>) <=> (papers = <<>>)
               /\ papers # <<>> =>
                      result.value = PaperComparator_compare_papers(papers, fields)
    /\ call.op = "export_papers" =>
           LET papers == FetchedInOrder(svc)
               out == PaperExporter_export_papers(papers,
                          ExportConfig(call.format, call.include_abstract, TRUE, TRUE))
           IN  /\ Len(svc) = Len(call.arxiv_ids)
               /\ ~result.raised
               /\ (result.value = <<"Error", ":", " ", "No valid papers found for export">>) <=> (papers = <<>>)
               /\ papers # <<>> =>
                      result.value = (IF out.raised
                                      THEN <<"Error exporting papers", ":", " ">> \o out.msg
                                      ELSE out.value)

\* two ids, the first fetch times out, the second finds a paper: the export
\* holds that paper alone
C21_Witness ==
    /\ call.op = "export_papers"
    /\ call.format = "json"
    /\ Len(svc) = 2
    /\ svc[1].kind = "timeout"
    /\ Len(FetchedInOrder(svc)) = 1
    /\ ~result.raised
    /\ result.value = export_json(FetchedInOrder(svc),
                                  ExportConfig("json", call.include_abstract, TRUE, TRUE))

\* s without the characters of the occurrences of lit (no occurrence of
\* 'arXiv:', 'v1', 'v2' or 'v3' overlaps another of the same literal)
Without(s, lit) ==
    LET n == Len(lit)
        covered == {k \in 1..Len(s) :
                       \E i \in 1..(Len(s) - n + 1) :
                           i <= k /\ k < i + n /\ SubSeq(s, i, i + n - 1) = lit}
        kept == SelectSeq([k \in 1..Len(s) |-> k], LAMBDA k : k \notin covered)
    IN  [j \in 1..Len(kept) |-> s[kept[j]]]

IdLiterals ==
    << <<"a","r","X","i","v",":">>, <<"v","1">>, <<"v","2">>, <<"v","3">> >>

C28_SentIdIsNormalForm ==
    call.op = "ArxivAPI.get_paper" =>
        /\ \A l \in 1..4 : Occurrences(reqs[1].id_list, IdLiterals[l]) = 0
        /\ CleanId(reqs[1].id_list) = reqs[1].id_list

\* the words of a title: its stretches without white space, lower-cased,
\* from left to right
WordsOf(title) ==
    LET t == lower(title) \o <<>>
        blank == {k \in 1..Len(t) : t[k] \in Whitespace} \cup {0, Len(t) + 1}
        spans == {ie \in (1..Len(t)) \X (1..Len(t)) :
                     /\ ie[1] <= ie[2]
                     /\ (ie[1]..ie[2]) \cap blank = {}
                     /\ ie[1] - 1 \in blank
                     /\ ie[2] + 1 \in blank}
    IN  [k \in 1..Cardinality(spans) |->
            LET ie == CHOOSE ie \in spans :
                          Cardinality({x \in spans : x[1] < ie[1]}) = k - 1
            IN  SubSeq(t, ie[1], ie[2])]

\* the clauses of the related-paper query of a seed
RelatedClauses(paper) ==
    LET cats  == paper.categories
        words == SelectSeq(WordsOf(paper.title),
                           LAMBDA w : Len(w) > 3 /\ w \notin StopWords)
    IN  [i \in 1..(IF Len(cats) < 2 THEN Len(cats) ELSE 2) |->
            <<"cat", ":">> \o cats[i]]
        \o [i \in 1..(IF Len(words) < 3 THEN Len(words) ELSE 3) |->
               <<"\"">> \o words[i] \o <<"\"">>]

\* C25: the query of find_related_papers is the ' OR ' join of a cat: clause
\* for each of the first two categories of the seed and a quoted clause for
\* each of the first three title words longer than 3 characters that are
\* not stop words; without any clause it is the first category of the seed,
\* or cs.AI when the seed has none.
C25_RelatedQueryClauses ==
    call.op = "RelatedPaperFinder.find_related_papers" =>
        LET clauses == RelatedClauses(call.paper)
            query ==
                IF clauses # <<>>
                THEN Concat([i \in 1..Len(clauses) |->
                                IF i = 1 THEN clauses[i]
                                ELSE <<" ", "OR", " ">> \o clauses[i]])
                ELSE IF call.paper.categories # <<>> THEN call.paper.categories[1]
                ELSE <<"c","s",".","A","I">>
        IN  /\ Len(reqs) = 1
            /\ reqs[1].search_query = quote_plus(query)

\* three categories and five eligible title words: two cat: clauses and the
\* quoted words deep, nets, (with its comma) and graphs
C25_Witness ==
    /\ call.op = "RelatedPaperFinder.find_related_papers"
    /\ Len(call.paper.categories) = 3
    /\ Len(RelatedClauses(call.paper)) = 5
    /\ RelatedClauses(call.paper)[4] = <<"\"", "n", "e", "t", "s", ",", "\"">>
    /\ reqs[1].search_query =
           quote_plus(<<"cat", ":", "c","s",".","C","V", " ", "OR", " ",
                        "cat", ":", "c","s",".","C","L", " ", "OR", " ",
                        "\"", "d","e","e","p", "\"", " ", "OR", " ",
                        "\"", "n","e","t","s",",", "\"", " ", "OR", " ",
                        "\"", "g","r","a","p","h","s", "\"">>)

\* a seed without categories and without an eligible title word: cs.AI
C25_WitnessDefault ==
    /\ call.op = "RelatedPaperFinder.find_related_papers"
    /\ RelatedClauses(call.paper) = <<>>
    /\ reqs[1].search_query = quote_plus(<<"c","s",".","A","I">>)


\* the requests a batch chain has sent are those of the first ids of its
\* input, in order
SentForIds(ch) ==
    /\ Len(ch.sent) <= Len(ch.args.arxiv_ids)
    /\ \A k \in 1..Len(ch.sent) :
           ch.sent[k] = IdListRequest(CleanId(ch.args.arxiv_ids[k]))

\* C22: within one compare_papers or export_papers call the requests go out
\* one after the other in the order of the input ids: at most one is
\* outstanding, and request k+1 is sent only when request k has been answered.
C22_SequentialFetches ==
    \A c \in {1, 2} :
        chains[c].op \in {"compare_papers", "export_papers"} =>
            /\ chains[c].pending <= 1
            /\ Len(chains[c].sent) <= Len(chains[c].got) + 1
            /\ SentForIds(chains[c])

C22_Witness ==
    \E c \in {1, 2} :
        /\ chains[c].op \in {"compare_papers", "export_papers"}
        /\ Len(chains[c].sent) = 2
        /\ Len(chains[c].got) = 1
        /\ chains[c].pending = 1
        /\ chains[c].sent[1] # chains[c].sent[2]

\* C23: a search or get_paper call of the client sends at most one GET, and
\* once its request has failed the call is over with the error result
\* (an error text, or an absent paper).
C23_NoRetry ==
    \A c \in {1, 2} :
        chains[c].op \in {"ArxivAPI.search", "ArxivAPI.get_paper"} =>
            /\ Len(chains[c].sent) <= 1
            /\ chains[c].pending <= 1
            /\ (chains[c].got # <<>> /\ Failed(chains[c].got[1])) =>
                   /\ chains[c].pc = "done"
                   /\ ~chains[c].result.raised
                   /\ chains[c].op = "ArxivAPI.search" =>
                          /\ chains[c].result.value.error # None
                          /\ chains[c].result.value.papers = <<>>
                   /\ chains[c].op = "ArxivAPI.get_paper" =>
                          chains[c].result.value = None

C23_Witness ==
    \E c \in {1, 2} :
        /\ chains[c].op = "ArxivAPI.search"
        /\ Len(chains[c].sent) = 1
        /\ chains[c].got # <<>> /\ Failed(chains[c].got[1])
        /\ chains[c].pc = "done"

\* C30: find_related_papers of the gateway sends the search only after the
\* fetch of the seed has returned a paper; otherwise it sends no search and
\* answers the error 'Could not find original paper' with no papers; it
\* sends at most two requests.
C30_SearchOnlyAfterSeed ==
    \A c \in {1, 2} :
        chains[c].op = "find_related_papers" =>
            /\ Len(chains[c].sent) <= 2
            /\ chains[c].pending <= 1
            /\ Len(chains[c].sent) = 2 =>
                   /\ chains[c].got # <<>>
                   /\ Fetched(chains[c].got[1]) # <<>>
                   /\ chains[c].sent[1] = IdListRequest(CleanId(chains[c].args.arxiv_id))
            /\ (chains[c].got # <<>> /\ Fetched(chains[c].got[1]) = <<>>) =>
                   /\ chains[c].pc = "done"
                   /\ Len(chains[c].sent) <= 1
                   /\ chains[c].result =
                          Ok(ErrorWithPapers(<<"Could not find original paper">>))

C30_Witness ==
    \E c \in {1, 2} :
        /\ chains[c].op = "find_related_papers"
        /\ Len(chains[c].sent) = 2
        /\ chains[c].pc = "done"

C30_WitnessNoSeed ==
    \E c \in {1, 2} :
        /\ chains[c].op = "find_related_papers"
        /\ Len(chains[c].sent) = 1
        /\ chains[c].got # <<>>
        /\ chains[c].pc = "done"

\* C29: after close, a search answers a result with no papers and an error
\* text, and get_paper answers an absent paper; neither raises and neither
\* sends a request.
C29_ClosedClientAnswers ==
    \A c \in {1, 2} :
        (chains[c].after_close
            /\ chains[c].op \in {"ArxivAPI.search", "ArxivAPI.get_paper"}) =>
            /\ chains[c].pc = "done"
            /\ chains[c].sent = <<>>
            /\ chains[c].pending = 0
            /\ ~chains[c].result.raised
            /\ chains[c].op = "ArxivAPI.search" =>
                   /\ chains[c].result.value.papers = <<>>
                   /\ chains[c].result.value.error # None
            /\ chains[c].op = "ArxivAPI.get_paper" =>
                   chains[c].result.value = None

C29_Witness ==
    /\ http_client = "closed"
    /\ \E c \in {1, 2} :
           /\ chains[c].after_close
           /\ chains[c].op = "ArxivAPI.search"
           /\ chains[c].pc = "done"
           /\ chains[3 - c].after_close
           /\ chains[3 - c].op = "ArxivAPI.get_paper"

\* what a call returns when it runs alone on the answers it was given
Alone(ch) ==
    CASE ch.op = "ArxivAPI.search" ->
             ArxivAPI_search(ch.args.query, ch.args.max_results,
                             ch.args.sort_by, ch.got[1])
      [] ch.op = "ArxivAPI.get_paper" ->
             ArxivAPI_get_paper(ch.args.arxiv_id, ch.got[1])
      [] ch.op = "get_paper_citations" ->
             Server_get_paper_citations(ch.args.arxiv_id, ch.args.current_year,
                                        ch.args.draw1, ch.args.draw2, ch.got[1])
      [] ch.op = "compare_papers" ->
             Server_compare_papers(ch.args.arxiv_ids, None, ch.got)
      [] ch.op = "export_papers" ->
             Server_export_papers(ch.args.arxiv_ids, ch.args.format,
                                  ch.args.include_abstract, ch.got)
      [] ch.op = "find_related_papers" ->
             Server_find_related_papers(ch.args.arxiv_id, ch.args.max_results,
                                        ch.got)

====
